---- MODULE Spec2Model ----
(***************************************************************************)
(* A model of the relative-date engine of mcp-labrat: the wall-clock       *)
(* abstraction, the relative date resolver, the duration calculator and    *)
(* the ICS date decoder.                                                   *)
(*                                                                         *)
(* Conventions of the model                                                *)
(*  - an instant (a JavaScript Date value) is a whole number of minutes    *)
(*    since 1970-01-01T00:00Z; seconds and milliseconds are carried        *)
(*    unchanged by every operation modelled here and are left out;         *)
(*  - a calendar day is a whole number of days since 1970-01-01;           *)
(*  - a JavaScript string is a TLA+ string, read character by character    *)
(*    with SubSeq;                                                         *)
(*  - the time zone database is the rule table ZoneOffset below: the       *)
(*    current EU rule for Europe/Helsinki, the current US rule for         *)
(*    America/New_York, no transitions for UTC and Asia/Tokyo.             *)
(***************************************************************************)
EXTENDS Integers, Sequences, FiniteSets, TLC

(***************************************************************************)
(* Strings                                                                 *)
(***************************************************************************)
\* Call by value, as the program's calls are: v is evaluated once and F is
\* applied to the value.
Bind(v, F(_)) == CHOOSE r \in {F(x) : x \in {v}} : TRUE

Char(s, i) == SubSeq(s, i, i)

Digits == {"0", "1", "2", "3", "4", "5", "6", "7", "8", "9"}

IsDigit(c) == c \in Digits

DigitVal(c) ==
  CASE c = "0" -> 0 [] c = "1" -> 1 [] c = "2" -> 2 [] c = "3" -> 3
    [] c = "4" -> 4 [] c = "5" -> 5 [] c = "6" -> 6 [] c = "7" -> 7
    [] c = "8" -> 8 [] c = "9" -> 9

AllDigits(s) == \A i \in 1..Len(s) : IsDigit(Char(s, i))

RECURSIVE parseInt(_)
\* parseInt(s, 10) of a non-empty string of ASCII digits.
parseInt(s) ==
  IF Len(s) = 0 THEN 0
  ELSE 10 * parseInt(SubSeq(s, 1, Len(s) - 1)) + DigitVal(Char(s, Len(s)))

\* String.prototype.indexOf for a one-character needle: 0 when absent,
\* otherwise the 1-based position of the first occurrence.
IndexOf(s, c) ==
  IF \E i \in 1..Len(s) : Char(s, i) = c
  THEN CHOOSE i \in 1..Len(s) :
         Char(s, i) = c /\ \A j \in 1..(i - 1) : Char(s, j) # c
  ELSE 0

StartsWith(s, p) == Len(s) >= Len(p) /\ SubSeq(s, 1, Len(p)) = p

EndsWith(s, p) ==
  Len(s) >= Len(p) /\ SubSeq(s, Len(s) - Len(p) + 1, Len(s)) = p

Includes(s, p) ==
  \E i \in 1..(Len(s) - Len(p) + 1) : SubSeq(s, i, i + Len(p) - 1) = p

UpperLetters == "ABCDEFGHIJKLMNOPQRSTUVWXYZ"

LowerLetters == "abcdefghijklmnopqrstuvwxyz"

LowerOf ==
  [c \in {Char(UpperLetters, i) : i \in 1..Len(UpperLetters)} |->
     Char(LowerLetters, IndexOf(UpperLetters, c))]

LowerChar(c) == IF c \in DOMAIN LowerOf THEN LowerOf[c] ELSE c

RECURSIVE toLowerCase(_)
toLowerCase(s) ==
  Bind(s, LAMBDA v :
    IF Len(v) = 0 THEN ""
    ELSE LowerChar(Char(v, 1)) \o toLowerCase(SubSeq(v, 2, Len(v))))

(***************************************************************************)
(* Calendar arithmetic of the proleptic Gregorian calendar, as ECMAScript  *)
(* MakeDay / YearFromTime / MonthFromTime / DateFromTime / WeekDay do it.  *)
(***************************************************************************)
IsLeap(y) == (y % 4 = 0 /\ y % 100 # 0) \/ y % 400 = 0

DaysInMonth(y, m) ==
  CASE m = 2 -> IF IsLeap(y) THEN 29 ELSE 28
    [] m \in {4, 6, 9, 11} -> 30
    [] OTHER -> 31

\* Days from 1970-01-01 to the first day of year y.
DayFromYear(y) ==
  365 * (y - 1970) + ((y - 1969) \div 4) - ((y - 1901) \div 100)
    + ((y - 1601) \div 400)

\* Days of year y before its month m.
DaysBeforeMonth(y, m) ==
  <<0, 31, 59, 90, 120, 151, 181, 212, 243, 273, 304, 334>>[m]
    + (IF m > 2 /\ IsLeap(y) THEN 1 ELSE 0)

\* MakeDay(year, month, date) with month 1..12 and any integer date: day
\* arithmetic carries across month and year ends.
MakeDay(y, m, d) == DayFromYear(y) + DaysBeforeMonth(y, m) + d - 1

\* YearFromTime: the year holding day number n (400 years are 146097 days).
YearFromDay(n) ==
  LET guess == 1970 + ((n * 400) \div 146097)
  IN CHOOSE y \in (guess - 1)..(guess + 1) :
       DayFromYear(y) <= n /\ n < DayFromYear(y + 1)

MonthFromDay(n) ==
  LET y == YearFromDay(n)
      k == n - DayFromYear(y)
  IN CHOOSE m \in 1..12 :
       DaysBeforeMonth(y, m) <= k /\ k < DaysBeforeMonth(y, m) + DaysInMonth(y, m)

DateFromDay(n) ==
  LET y == YearFromDay(n)
  IN n - DayFromYear(y) - DaysBeforeMonth(y, MonthFromDay(n)) + 1

\* WeekDay(t): 0 = Sunday .. 6 = Saturday; day 0 was a Thursday.
WeekDay(n) == (n + 4) % 7

IsRealDate(y, m, d) == m \in 1..12 /\ d \in 1..DaysInMonth(y, m)

MinutesPerDay == 24 * 60

DayOf(t) == t \div MinutesPerDay

MinuteOfDay(t) == t % MinutesPerDay

\* The instant of a UTC calendar reading.
UtcInstant(y, m, d, hh, mm) == MakeDay(y, m, d) * MinutesPerDay + hh * 60 + mm

(***************************************************************************)
(* The time zone database, as far as the model holds it.  Offsets are in   *)
(* minutes east of UTC.                                                    *)
(***************************************************************************)
\* The Sunday on or before day n.
SundayOnOrBefore(n) == n - WeekDay(n)

\* The first Sunday on or after day n.
SundayOnOrAfter(n) == n + ((7 - WeekDay(n)) % 7)

\* EU rule: summer time from 01:00 UTC on the last Sunday of March to
\* 01:00 UTC on the last Sunday of October.
EuSummer(t) ==
  LET y == YearFromDay(DayOf(t))
      from == SundayOnOrBefore(MakeDay(y, 3, 31)) * MinutesPerDay + 60
      to == SundayOnOrBefore(MakeDay(y, 10, 31)) * MinutesPerDay + 60
  IN from <= t /\ t < to

\* US rule: daylight time from 02:00 EST (07:00 UTC) on the second Sunday of
\* March to 02:00 EDT (06:00 UTC) on the first Sunday of November.
UsDaylight(t) ==
  LET y == YearFromDay(DayOf(t))
      from == (SundayOnOrAfter(MakeDay(y, 3, 1)) + 7) * MinutesPerDay + 7 * 60
      to == SundayOnOrAfter(MakeDay(y, 11, 1)) * MinutesPerDay + 6 * 60
  IN from <= t /\ t < to

\* The IANA names the database of the model knows, in lower case (Intl
\* matches zone names without regard to case).
IanaZones == {"europe/helsinki", "america/new_york", "asia/tokyo", "utc"}

\* The UTC offset of IANA zone `name` (lower case) at instant t.
IanaOffset(name, t) ==
  CASE name = "europe/helsinki" -> IF EuSummer(t) THEN 180 ELSE 120
    [] name = "america/new_york" -> IF UsDaylight(t) THEN -240 ELSE -300
    [] name = "asia/tokyo" -> 540
    [] OTHER -> 0

\* Every offset zone `name` ever has.
IanaOffsets(name) ==
  CASE name = "europe/helsinki" -> {120, 180}
    [] name = "america/new_york" -> {-300, -240}
    [] name = "asia/tokyo" -> {540}
    [] OTHER -> {0}

SetMax(S) == CHOOSE x \in S : \A y \in S : y <= x

SetMin(S) == CHOOSE x \in S : \A y \in S : x <= y

(***************************************************************************)
(* JavaScript Date in the zone of the process (the TZ of the host).        *)
(***************************************************************************)
\* LocalTime(t): the local reading, as minutes, of instant t.
LocalTime(proc, t) == t + IanaOffset(proc, t)

\* UTC(tlocal): the instant of a local reading.  A reading that repeats (the
\* clock was set back) or that was skipped (the clock was set forward) is
\* read with the offset in force before the transition.
LocalToUTC(proc, tl) ==
  LET fits == {o \in IanaOffsets(proc) : IanaOffset(proc, tl - o) = o}
  IN IF fits # {} THEN tl - SetMax(fits) ELSE tl - SetMin(IanaOffsets(proc))

\* TimeClip: a Date holds at most 100,000,000 days either side of the epoch.
MaxDateDay == 100 * 1000000

NoDate == [valid |-> FALSE, t |-> 0]

\* The Date of instant t.
At(t) == [valid |-> TRUE, t |-> t]

\* new Date(year, monthIndex, day) with month = monthIndex + 1 in 1..12: a
\* year in 0..99 is taken as 1900 + year, the day may be any integer.
NewLocalDate(proc, year, month, day) ==
  LET yr == IF 0 <= year /\ year <= 99 THEN 1900 + year ELSE year
      n == MakeDay(yr, month, day)
  IN IF n > MaxDateDay \/ n < -MaxDateDay
     THEN NoDate
     ELSE [valid |-> TRUE, t |-> LocalToUTC(proc, n * MinutesPerDay)]

getFullYear(proc, date) == YearFromDay(DayOf(LocalTime(proc, date.t)))

getMonth(proc, date) == MonthFromDay(DayOf(LocalTime(proc, date.t))) - 1

getDate(proc, date) == DateFromDay(DayOf(LocalTime(proc, date.t)))

getDay(proc, date) == WeekDay(DayOf(LocalTime(proc, date.t)))

(***************************************************************************)
(* luxon                                                                   *)
(***************************************************************************)
InvalidZone == [type |-> "invalid", name |-> "", offset |-> 0]

SystemZone == [type |-> "system", name |-> "", offset |-> 0]

FixedOffsetZone(o) == [type |-> "fixed", name |-> "", offset |-> o]

\* signedOffset(hours, minutes): the minutes take the sign of the hours.
signedOffset(neg, hours, minutes) ==
  IF neg THEN -(hours * 60) - minutes ELSE hours * 60 + minutes

\* FixedOffsetZone.parseSpecifier on a lower-cased name:
\* /^utc(?:([+-]\d{1,2})(?::(\d{2}))?)?$/i
parseSpecifier(s) ==
  IF ~StartsWith(s, "utc") THEN InvalidZone
  ELSE LET r == SubSeq(s, 4, Len(s))
           c == IndexOf(r, ":")
           h == IF c = 0 THEN r ELSE SubSeq(r, 1, c - 1)
           m == IF c = 0 THEN "" ELSE SubSeq(r, c + 1, Len(r))
       IN IF r = "" THEN FixedOffsetZone(0)
          ELSE IF /\ Len(h) \in {2, 3}
                  /\ Char(h, 1) \in {"+", "-"}
                  /\ AllDigits(SubSeq(h, 2, Len(h)))
                  /\ (c = 0 \/ (Len(m) = 2 /\ AllDigits(m)))
               THEN FixedOffsetZone(signedOffset(Char(h, 1) = "-",
                                                 parseInt(SubSeq(h, 2, Len(h))),
                                                 parseInt(m)))
               ELSE InvalidZone

\* normalizeZone for a string: the names "default", "local", "system",
\* "utc" and "gmt" and the UTC+h:mm specifiers are taken before the name is
\* looked up in the zone database.  Settings.defaultZone is the system zone.
normalizeZone(input) ==
  Bind(toLowerCase(input), LAMBDA lowered :
    IF lowered \in {"default", "local", "system"} THEN SystemZone
    ELSE IF lowered \in {"utc", "gmt"} THEN FixedOffsetZone(0)
    ELSE IF parseSpecifier(lowered).type # "invalid" THEN parseSpecifier(lowered)
    ELSE IF lowered \in IanaZones
         THEN [type |-> "iana", name |-> lowered, offset |-> 0]
         ELSE InvalidZone)

\* zone.offset(ts)
ZoneOffset(proc, zone, t) ==
  CASE zone.type = "iana" -> IanaOffset(zone.name, t)
    [] zone.type = "system" -> IanaOffset(proc, t)
    [] OTHER -> zone.offset

\* Mutant: the reading is converted with the offset in force now.
Mut_fixOffset_OffsetOfNow(proc, zone, localTS, o) == localTS - o

\* fixOffset(localTS, o, tz): the instant of a local reading, from a first
\* guess o of the offset.
fixOffset(proc, zone, localTS, o) ==
  LET guess1 == localTS - o
      o2 == ZoneOffset(proc, zone, guess1)
      guess2 == guess1 - (o2 - o)
      o3 == ZoneOffset(proc, zone, guess2)
  IN IF o = o2 THEN guess1
     ELSE IF o2 = o3 THEN guess2
     ELSE localTS - (IF o2 < o3 THEN o2 ELSE o3)

\* hasInvalidGregorianData / hasInvalidTimeData
ValidUnits(year, month, day, hour, minute, second) ==
  /\ IsRealDate(year, month, day)
  /\ \/ hour \in 0..23
     \/ (hour = 24 /\ minute = 0 /\ second = 0)
  /\ minute \in 0..59
  /\ second \in 0..59

\* DateTime.fromObject({year, ...}, {zone}) at system time `now`, then
\* toJSDate(): the first guess of the offset is the zone's offset now.
fromObject(proc, now, zoneName, year, month, day, hour, minute, second) ==
  Bind(normalizeZone(zoneName), LAMBDA zone :
    IF zone.type = "invalid" \/ ~ValidUnits(year, month, day, hour, minute, second)
    THEN NoDate
    ELSE [valid |-> TRUE,
          t |-> fixOffset(proc, zone,
                          MakeDay(year, month, day) * MinutesPerDay + hour * 60 + minute,
                          ZoneOffset(proc, zone, now))])

\* dt.setZone(zone) . year / month / day / hour / minute of instant t.
ZoneFields(proc, zone, t) ==
  LET l == t + ZoneOffset(proc, zone, t)
  IN [year |-> YearFromDay(DayOf(l)), month |-> MonthFromDay(DayOf(l)),
      day |-> DateFromDay(DayOf(l)),
      hour |-> MinuteOfDay(l) \div 60, minute |-> MinuteOfDay(l) % 60]

(***************************************************************************)
(* Weekday registry (utils/weekday.ts)                                     *)
(***************************************************************************)
WEEKDAYS ==
  <<"monday", "tuesday", "wednesday", "thursday", "friday", "saturday", "sunday">>

DEFAULT_TIMEZONE == "Europe/Helsinki"

\* The property names every object literal inherits from Object.prototype.
ObjectPrototypeKeys ==
  {"constructor", "toString", "toLocaleString", "valueOf", "hasOwnProperty",
   "isPrototypeOf", "propertyIsEnumerable", "__proto__", "__defineGetter__",
   "__defineSetter__", "__lookupGetter__", "__lookupSetter__"}

\* WEEKDAY_TO_ISO[weekday]: a number for the seven own keys, an inherited
\* member (a truthy value that is no number) for a name of Object.prototype,
\* undefined otherwise.
WEEKDAY_TO_ISO(weekday) ==
  IF \E i \in 1..7 : WEEKDAYS[i] = weekday
  THEN [kind |-> "number", n |-> CHOOSE i \in 1..7 : WEEKDAYS[i] = weekday]
  ELSE IF weekday \in ObjectPrototypeKeys
       THEN [kind |-> "inherited", n |-> 0]
       ELSE [kind |-> "undefined", n |-> 0]

(***************************************************************************)
(* Relative date calculator (utils/relativeDateCalculator.ts)              *)
(***************************************************************************)
NoWallClock ==
  [year |-> 0, month |-> 0, day |-> 0, hour |-> 0, minute |-> 0, second |-> 0,
   timezone |-> ""]

Returned(t) == [ok |-> TRUE, err |-> "", echo |-> "", t |-> t]

Thrown(kind, value) == [ok |-> FALSE, err |-> kind, echo |-> value, t |-> 0]

\* Mutant: the range test lets hour 24 and minute 60 through.
Mut_parseHHmm_OffByOne(time) ==
  LET match == /\ Len(time) = 5
               /\ AllDigits(SubSeq(time, 1, 2))
               /\ Char(time, 3) = ":"
               /\ AllDigits(SubSeq(time, 4, 5))
      hours == parseInt(SubSeq(time, 1, 2))
      minutes == parseInt(SubSeq(time, 4, 5))
  IN IF ~match THEN [ok |-> FALSE, hours |-> 0, minutes |-> 0]
     ELSE IF hours > 24 \/ minutes > 60
          THEN [ok |-> FALSE, hours |-> 0, minutes |-> 0]
          ELSE [ok |-> TRUE, hours |-> hours, minutes |-> minutes]

\* parseHHmm: /^(\d{2}):(\d{2})$/ and the range test.
parseHHmm(time) ==
  LET match == /\ Len(time) = 5
               /\ AllDigits(SubSeq(time, 1, 2))
               /\ Char(time, 3) = ":"
               /\ AllDigits(SubSeq(time, 4, 5))
      hours == parseInt(SubSeq(time, 1, 2))
      minutes == parseInt(SubSeq(time, 4, 5))
  IN IF ~match THEN [ok |-> FALSE, hours |-> 0, minutes |-> 0]
     ELSE IF hours < 0 \/ hours > 23 \/ minutes < 0 \/ minutes > 59
          THEN [ok |-> FALSE, hours |-> 0, minutes |-> 0]
          ELSE [ok |-> TRUE, hours |-> hours, minutes |-> minutes]

jsDayToISOWeekday(jsDay) == IF jsDay = 0 THEN 7 ELSE jsDay

\* resolveTargetISOWeekday throws exactly when the looked-up value is falsy.
resolveTargetISOWeekdayThrows(weekday) == WEEKDAY_TO_ISO(weekday).kind = "undefined"

\* getWallClockNow(timezone) at system time `now`; the clock of the model
\* runs in whole minutes, so the second is 0.
getWallClockNow(proc, now, timezone) ==
  LET zone == normalizeZone(timezone)
      f == ZoneFields(proc, zone, now)
  IN IF zone.type = "invalid"
     THEN [ok |-> FALSE, err |-> "InvalidTimezone", echo |-> timezone,
           wc |-> NoWallClock]
     ELSE [ok |-> TRUE, err |-> "", echo |-> "",
           wc |-> [year |-> f.year, month |-> f.month, day |-> f.day,
                   hour |-> f.hour, minute |-> f.minute, second |-> 0,
                   timezone |-> timezone]]

\* wallClockToUTC
wallClockToUTC(proc, now, wc) ==
  LET dt == fromObject(proc, now, wc.timezone, wc.year, wc.month, wc.day,
                       wc.hour, wc.minute, wc.second)
  IN IF ~dt.valid THEN Thrown("InvalidWallClock", "") ELSE Returned(dt.t)

\* getISOWeekdayFromWallClock
getISOWeekdayFromWallClock(proc, wc) ==
  jsDayToISOWeekday(getDay(proc, NewLocalDate(proc, wc.year, wc.month, wc.day)))

\* Mutant: a weekday already past this week rolls forward to its next
\* occurrence.
Mut_totalDaysOffset_NextOccurrence(proc, wc, weekOffset, weekday) ==
  LET delta == WEEKDAY_TO_ISO(weekday).n - getISOWeekdayFromWallClock(proc, wc)
  IN weekOffset * 7 + (IF weekOffset = 0 /\ delta < 0 THEN delta + 7 ELSE delta)

totalDaysOffset(proc, wc, weekOffset, weekday) ==
  weekOffset * 7 + (WEEKDAY_TO_ISO(weekday).n - getISOWeekdayFromWallClock(proc, wc))

\* The wall clock the resolver builds from targetDate.
resultWallClock(proc, wc, targetDate, hours, minutes) ==
  [year |-> getFullYear(proc, targetDate),
   month |-> getMonth(proc, targetDate) + 1,
   day |-> getDate(proc, targetDate),
   hour |-> hours, minute |-> minutes, second |-> 0,
   timezone |-> wc.timezone]

\* calculateAbsoluteDateFromWallClock(wallClockNow, input) at system time
\* `now`.  An inherited member as target weekday makes the day offset NaN,
\* hence targetDate an Invalid Date, every field of the result wall clock
\* NaN, and the self-check fail: NaN !== target.  The same happens when
\* targetDate is outside the range of Date.
calculateAbsoluteDateFromWallClock(proc, now, wc, weekOffset, weekday, time) ==
  LET parsedTime == parseHHmm(time)
      target == WEEKDAY_TO_ISO(weekday)
      targetDate ==
        IF target.kind = "number"
        THEN NewLocalDate(proc, wc.year, wc.month,
                          wc.day + totalDaysOffset(proc, wc, weekOffset, weekday))
        ELSE NoDate
      rwc == resultWallClock(proc, wc, targetDate, parsedTime.hours,
                             parsedTime.minutes)
  IN IF ~parsedTime.ok THEN Thrown("InvalidTimeFormat", time)
     ELSE IF resolveTargetISOWeekdayThrows(weekday)
          THEN Thrown("InvalidWeekday", weekday)
     ELSE IF ~targetDate.valid
          THEN Thrown("DateCalculationInconsistency", weekday)
     ELSE IF getISOWeekdayFromWallClock(proc, rwc) # target.n
          THEN Thrown("DateCalculationInconsistency", weekday)
     ELSE wallClockToUTC(proc, now, rwc)

\* calculateEndDate(startDate, durationMinutes = 60):
\* endDate.setMinutes(endDate.getMinutes() + durationMinutes) reads the
\* local time of the process, adds the minutes to that reading and converts
\* the new reading back.
calculateEndDate(proc, startDate, given, durationMinutes) ==
  LET d == IF given THEN durationMinutes ELSE 60
  IN LocalToUTC(proc, LocalTime(proc, startDate) + d)

(***************************************************************************)
(* ICS reader (utils/icsToJson.ts)                                         *)
(***************************************************************************)
LineBreaks == {"\r", "\n"}

RECURSIVE SplitLines(_)
\* icsData.split(/\r\n|\n|\r/)
SplitLines(s) ==
  Bind(s, LAMBDA v :
    IF \E i \in 1..Len(v) : Char(v, i) \in LineBreaks
    THEN Bind(CHOOSE k \in 1..Len(v) :
                /\ Char(v, k) \in LineBreaks
                /\ \A j \in 1..(k - 1) : Char(v, j) \notin LineBreaks,
              LAMBDA i :
                LET w == IF Char(v, i) = "\r" /\ i < Len(v) /\ Char(v, i + 1) = "\n"
                         THEN 2 ELSE 1
                IN <<SubSeq(v, 1, i - 1)>> \o SplitLines(SubSeq(v, i + w, Len(v))))
    ELSE <<v>>)

WhiteSpace == {" ", "\t", "\r", "\n", "\f"}

RECURSIVE trim(_)
trim(s) ==
  Bind(s, LAMBDA v :
    IF Len(v) = 0 THEN v
    ELSE IF Char(v, 1) \in WhiteSpace THEN trim(SubSeq(v, 2, Len(v)))
    ELSE IF Char(v, Len(v)) \in WhiteSpace THEN trim(SubSeq(v, 1, Len(v) - 1))
    ELSE v)

HexDigits == Digits \cup {"A", "B", "C", "D", "E", "F", "a", "b", "c", "d", "e", "f"}

RECURSIVE toUpperHex(_)
toUpperHex(s) ==
  IF Len(s) = 0 THEN ""
  ELSE (IF \E i \in 1..Len(LowerLetters) : Char(LowerLetters, i) = Char(s, 1)
        THEN Char(UpperLetters, IndexOf(LowerLetters, Char(s, 1)))
        ELSE Char(s, 1))
       \o toUpperHex(SubSeq(s, 2, Len(s)))

\* The escapes decodeURI leaves alone: ; / ? : @ & = + $ , #
ReservedEscapes == {"3B", "2F", "3F", "3A", "40", "26", "3D", "2B", "24", "2C", "23"}

\* The escapes of unreserved ASCII characters the model decodes.
EscapeChar(code) ==
  CASE code = "20" -> " " [] code = "25" -> "%" [] code = "41" -> "A"
    [] code = "5C" -> "\\" [] code = "0A" -> "\n"

DecodedEscapes == {"20", "25", "41", "5C", "0A"}

\* Whether decodeURI throws a URIError: a % that is not followed by an
\* escape the decoder can read (two hexadecimal digits are wanted; an escape
\* of 80 or more must start a UTF-8 sequence, which no input of the model
\* holds).
decodeURIThrows(s) ==
  \E i \in 1..Len(s) :
    /\ Char(s, i) = "%"
    /\ \/ i + 2 > Len(s)
       \/ toUpperHex(SubSeq(s, i + 1, i + 2)) \notin (ReservedEscapes \cup DecodedEscapes)

RECURSIVE decodeURI(_)
\* decodeURI of a string on which it does not throw.
decodeURI(s) ==
  Bind(s, LAMBDA v :
    IF Len(v) = 0 THEN ""
    ELSE IF Char(v, 1) = "%" /\ toUpperHex(SubSeq(v, 2, 3)) \in DecodedEscapes
         THEN EscapeChar(toUpperHex(SubSeq(v, 2, 3))) \o decodeURI(SubSeq(v, 4, Len(v)))
         ELSE Char(v, 1) \o decodeURI(SubSeq(v, 2, Len(v))))

\* clean(string) of a defined string.
clean(s) ==
  Bind(s, LAMBDA v : IF decodeURIThrows(v) THEN trim(v) ELSE trim(decodeURI(v)))

\* keyMap
keyMap(key) ==
  CASE key = "DTSTART" -> "startDate" [] key = "DTEND" -> "endDate"
    [] key = "DESCRIPTION" -> "description" [] key = "SUMMARY" -> "summary"
    [] key = "LOCATION" -> "location"
    [] OTHER -> "[inherited]"

KeyMapKeys == {"DTSTART", "DTEND", "DESCRIPTION", "SUMMARY", "LOCATION"}

ObjectKeys ==
  {"startDate", "endDate", "description", "summary", "location", "[inherited]"}

\* An ICSJson object: the keys it has and their values.
EmptyObject == [keys |-> {}, v |-> [k \in ObjectKeys |-> ""]]

Has(obj, key) == key \in obj.keys

SetKey(obj, key, value) ==
  [keys |-> obj.keys \cup {key}, v |-> [obj.v EXCEPT ![key] = value]]

\* currentObj[lastKey] += text: an absent key reads as undefined, which
\* concatenates as the text "undefined".
AppendKey(obj, key, text) ==
  SetKey(obj, key, (IF Has(obj, key) THEN obj.v[key] ELSE "undefined") \o text)

\* The parser state: the objects allocated so far (heap), the emitted array
\* as references into the heap, the reference held by currentObj, lastKey and
\* isAlarm.
IcsStart ==
  [heap |-> <<EmptyObject>>, array |-> <<>>, currentObj |-> 1, lastKey |-> "",
   isAlarm |-> FALSE]

\* `parsedKey in keyMap` also holds for the names of Object.prototype.
InKeyMap(parsedKey) == parsedKey \in KeyMapKeys \cup ObjectPrototypeKeys

\* One turn of the loop of icsToJson on `line`.
IcsLine(st, line) ==
  LET colonIndex == IndexOf(line, ":")
      key == IF colonIndex = 0 THEN line ELSE SubSeq(line, 1, colonIndex - 1)
      value == IF colonIndex = 0 THEN "" ELSE SubSeq(line, colonIndex + 1, Len(line))
      semi == IndexOf(key, ";")
      parsedKey == IF semi = 0 THEN key ELSE SubSeq(key, 1, semi - 1)
      cur == st.heap[st.currentObj]
      \* the first half of the loop body: continuation lines and lastKey
      st1 ==
        IF parsedKey = "" THEN st
        ELSE IF colonIndex = 0
             THEN IF StartsWith(parsedKey, " ") /\ Len(st.lastKey) > 0
                  THEN [st EXCEPT !.heap[st.currentObj] =
                          AppendKey(cur, st.lastKey, clean(SubSeq(line, 2, Len(line))))]
                  ELSE st
             ELSE IF InKeyMap(parsedKey)
                  THEN [st EXCEPT !.lastKey = keyMap(parsedKey)]
                  ELSE st
      cur1 == st1.heap[st1.currentObj]
      put(k, val) == [st1 EXCEPT !.heap[st1.currentObj] = SetKey(cur1, k, val)]
  IN CASE parsedKey = "BEGIN" ->
            IF value = "VEVENT"
            THEN [st1 EXCEPT !.heap = Append(st1.heap, EmptyObject),
                             !.currentObj = Len(st1.heap) + 1]
            ELSE IF value = "VALARM" THEN [st1 EXCEPT !.isAlarm = TRUE]
            ELSE st1
       [] parsedKey = "END" ->
            IF value = "VEVENT"
            THEN [st1 EXCEPT !.isAlarm = FALSE,
                             !.array = Append(st1.array, st1.currentObj)]
            ELSE [st1 EXCEPT !.isAlarm = FALSE]
       [] parsedKey = "DTSTART" -> put("startDate", value)
       [] parsedKey = "DTEND" -> put("endDate", value)
       [] parsedKey = "DESCRIPTION" ->
            IF ~st1.isAlarm THEN put("description", clean(value)) ELSE st1
       [] parsedKey = "SUMMARY" -> put("summary", clean(value))
       [] parsedKey = "LOCATION" -> put("location", clean(value))
       [] OTHER -> st1

RECURSIVE IcsLoop(_, _, _)
IcsLoop(st, lines, i) ==
  IF i > Len(lines) THEN st
  ELSE CHOOSE end \in {IcsLoop(next, lines, i + 1) : next \in {IcsLine(st, lines[i])}} :
         TRUE

\* icsToJson(icsData): the emitted objects, read when the function returns.
icsToJson(icsData) ==
  CHOOSE array \in {[i \in 1..Len(st.array) |-> st.heap[st.array[i]]] :
                      st \in {IcsLoop(IcsStart, lines, 1) :
                                lines \in {SplitLines(icsData)}}} : TRUE

(***************************************************************************)
(* ICS date decoder (utils/calendar-events.ts)                             *)
(***************************************************************************)
Warning(kind, value) == [kind |-> kind, value |-> value]

\* icalDate.match(/TZID=([^:]+):(.+)/): the leftmost "TZID=" that is
\* followed by at least one character other than a colon, a colon and at
\* least one more character.  Tokens are values of single lines and hold no
\* line break.
TzidStarts(s) ==
  {i \in 1..Len(s) :
     /\ i + 4 <= Len(s)
     /\ SubSeq(s, i, i + 4) = "TZID="
     /\ LET rest == SubSeq(s, i + 5, Len(s))
            c == IndexOf(rest, ":")
        IN c > 1 /\ c < Len(rest)}

TzidMatch(s) ==
  IF TzidStarts(s) = {} THEN [ok |-> FALSE, tz |-> "", date |-> ""]
  ELSE LET rest == SubSeq(s, SetMin(TzidStarts(s)) + 5, Len(s))
           c == IndexOf(rest, ":")
       IN [ok |-> TRUE, tz |-> SubSeq(rest, 1, c - 1),
           date |-> SubSeq(rest, c + 1, Len(rest))]

\* dateStr.match(/^(.+?)([+-])(\d{2})(\d{2})$/)
OffsetMatch(s) ==
  /\ Len(s) >= 6
  /\ Char(s, Len(s) - 4) \in {"+", "-"}
  /\ AllDigits(SubSeq(s, Len(s) - 3, Len(s)))

\* (parseInt(hours) * 60 + parseInt(minutes)) * (sign === '-' ? -1 : 1)
OffsetMinutes(s) ==
  (parseInt(SubSeq(s, Len(s) - 3, Len(s) - 2)) * 60
     + parseInt(SubSeq(s, Len(s) - 1, Len(s))))
    * (IF Char(s, Len(s) - 4) = "-" THEN -1 ELSE 1)

\* dateStr.match(/^(\d{4})(\d{2})(\d{2})(?:T(\d{2})(\d{2})(\d{2})?)?Z?$/)
DateMatch(s) ==
  LET body == IF EndsWith(s, "Z") THEN SubSeq(s, 1, Len(s) - 1) ELSE s
  IN /\ Len(body) \in {8, 13, 15}
     /\ AllDigits(SubSeq(body, 1, 8))
     /\ Len(body) > 8 => (Char(body, 9) = "T" /\ AllDigits(SubSeq(body, 10, Len(body))))

\* String(n) of an integer.
RECURSIVE NatToString(_)
NatToString(n) ==
  IF n < 10 THEN SubSeq("0123456789", n + 1, n + 1)
  ELSE NatToString(n \div 10) \o SubSeq("0123456789", (n % 10) + 1, (n % 10) + 1)

IntToString(n) == IF n < 0 THEN "-" \o NatToString(-n) ELSE NatToString(n)

padStart2(s) == IF Len(s) < 2 THEN "0" \o s ELSE s

\* The % of JavaScript takes the sign of the dividend.
JsRem(a, b) == IF a >= 0 THEN a % b ELSE -((-a) % b)

Abs(n) == IF n < 0 THEN -n ELSE n

\* `UTC${offsetMinutes >= 0 ? '+' : ''}${Math.floor(offsetMinutes / 60)}:${
\*    String(Math.abs(offsetMinutes % 60)).padStart(2, '0')}`
OffsetZoneName(offsetMinutes) ==
  "UTC" \o (IF offsetMinutes >= 0 THEN "+" ELSE "")
        \o IntToString(offsetMinutes \div 60) \o ":"
        \o padStart2(NatToString(Abs(JsRem(offsetMinutes, 60))))

\* Mutant: the TZID is stripped and the date is read as floating time.
Mut_IcsZone_IgnoresTzid(isUTC, tzValid, tz, hasOffset, offsetMinutes) ==
  IF isUTC THEN "utc"
  ELSE IF hasOffset THEN OffsetZoneName(offsetMinutes)
  ELSE DEFAULT_TIMEZONE

\* The zone parseIcsDate reads the date in: UTC for a Z suffix, else a valid
\* TZID, else the numeric offset, else the default zone (floating time).
IcsZone(isUTC, tzValid, tz, hasOffset, offsetMinutes) ==
  IF isUTC THEN "utc"
  ELSE IF tzValid THEN tz
  ELSE IF hasOffset THEN OffsetZoneName(offsetMinutes)
  ELSE DEFAULT_TIMEZONE

\* The TZID block of parseIcsDate: the zone taken from the token (valid or
\* not), the date text left, and the warning logged.
TzidBlock(icalDate) ==
  Bind(TzidMatch(icalDate), LAMBDA tzMatch :
    IF ~(Includes(icalDate, "TZID=") /\ tzMatch.ok)
    THEN [tzValid |-> FALSE, tz |-> "", dateStr |-> icalDate, warns |-> <<>>]
    ELSE IF normalizeZone(tzMatch.tz).type # "invalid"
         THEN [tzValid |-> TRUE, tz |-> tzMatch.tz, dateStr |-> tzMatch.date,
               warns |-> <<>>]
         ELSE [tzValid |-> FALSE, tz |-> "", dateStr |-> tzMatch.date,
               warns |-> <<Warning("InvalidTZID", icalDate)>>])

\* The rest of parseIcsDate: numeric offset, pattern, zone, fromObject.
DecodeIcsDate(proc, now, icalDate, tzid) ==
  LET hasOffset == OffsetMatch(tzid.dateStr)
      dateStr == IF hasOffset THEN SubSeq(tzid.dateStr, 1, Len(tzid.dateStr) - 5)
                 ELSE tzid.dateStr
      isUTC == EndsWith(dateStr, "Z")
      zone == IcsZone(isUTC, tzid.tzValid, tzid.tz, hasOffset,
                      IF hasOffset THEN OffsetMinutes(tzid.dateStr) ELSE 0)
  IN IF ~DateMatch(dateStr)
     THEN [date |-> NoDate,
           warns |-> tzid.warns \o <<Warning("UnableToParse", icalDate)>>]
     ELSE Bind(IF isUTC THEN SubSeq(dateStr, 1, Len(dateStr) - 1) ELSE dateStr,
               LAMBDA body :
                 LET field(from, to) ==
                       IF Len(body) >= to THEN parseInt(SubSeq(body, from, to)) ELSE 0
                 IN [date |-> fromObject(proc, now, zone, field(1, 4), field(5, 6),
                                         field(7, 8), field(10, 11), field(12, 13),
                                         field(14, 15)),
                     warns |-> tzid.warns])

\* parseIcsDate(icalDate, logger) at system time `now`: the Date returned
\* (NoDate for null) and the warnings logged, in order.  An undefined
\* icalDate is given as defined = FALSE.
parseIcsDate(proc, now, defined, icalDate) ==
  IF ~defined \/ icalDate = "" THEN [date |-> NoDate, warns |-> <<>>]
  ELSE Bind(icalDate, LAMBDA token :
         Bind(TzidBlock(token), LAMBDA tzid : DecodeIcsDate(proc, now, token, tzid)))

Null == [isNull |-> TRUE, s |-> ""]

Str(s) == [isNull |-> FALSE, s |-> s]

\* One element of the map of mapIcsToCalendarEvents.
ToCalendarEvent(proc, now, evt) ==
  LET start == parseIcsDate(proc, now, Has(evt, "startDate"), evt.v["startDate"])
      end == parseIcsDate(proc, now, Has(evt, "endDate"), evt.v["endDate"])
  IN [event |->
        [title |-> IF Has(evt, "summary") /\ evt.v["summary"] # ""
                   THEN evt.v["summary"] ELSE "Untitled",
         start |-> start.date,
         end |-> end.date,
         location |-> IF Has(evt, "location") /\ evt.v["location"] # ""
                      THEN Str(evt.v["location"]) ELSE Null,
         description |-> IF Has(evt, "description") /\ evt.v["description"] # ""
                         THEN Str(evt.v["description"]) ELSE Null],
      warns |-> start.warns \o end.warns]

\* parsed.map(...): every element with the warnings its dates logged.
MapEvents(proc, now, parsed) ==
  [i \in 1..Len(parsed) |-> ToCalendarEvent(proc, now, parsed[i])]

RECURSIVE ConcatWarns(_, _)
ConcatWarns(items, i) ==
  IF i > Len(items) THEN <<>> ELSE items[i].warns \o ConcatWarns(items, i + 1)

\* Mutant: the listing ends at the first event whose start does not decode.
Mut_mapIcsToCalendarEvents_Aborts(proc, now, ics) ==
  CHOOSE result \in
    {LET bad == {i \in 1..Len(items) : ~items[i].event.start.valid}
         n == IF bad = {} THEN Len(items) ELSE SetMin(bad) - 1
     IN [events |-> [i \in 1..n |-> items[i].event],
         warns |-> ConcatWarns(items, 1)] :
       items \in {MapEvents(proc, now, parsed) : parsed \in {icsToJson(ics)}}} : TRUE

\* mapIcsToCalendarEvents(ics, logger) at system time `now`.
mapIcsToCalendarEvents(proc, now, ics) ==
  CHOOSE result \in
    {[events |-> [i \in 1..Len(items) |-> items[i].event],
      warns |-> ConcatWarns(items, 1)] :
       items \in {MapEvents(proc, now, parsed) : parsed \in {icsToJson(ics)}}} : TRUE

(***************************************************************************)
(* ICS encoder (utils/ical-lib.ts)                                         *)
(***************************************************************************)
RECURSIVE ReplaceSpecials(_)
\* str.replace(/[\\,;]/g, (match) => `\\${match}`)
ReplaceSpecials(str) ==
  Bind(str, LAMBDA v :
    IF Len(v) = 0 THEN ""
    ELSE (IF Char(v, 1) \in {"\\", ",", ";"} THEN "\\" \o Char(v, 1) ELSE Char(v, 1))
         \o ReplaceSpecials(SubSeq(v, 2, Len(v))))

RECURSIVE ReplaceNewlines(_)
\* str.replace(/\n/g, '\\n')
ReplaceNewlines(str) ==
  Bind(str, LAMBDA v :
    IF Len(v) = 0 THEN ""
    ELSE (IF Char(v, 1) = "\n" THEN "\\n" ELSE Char(v, 1))
         \o ReplaceNewlines(SubSeq(v, 2, Len(v))))

\* Mutant: the newlines are replaced before the backslashes are escaped.
Mut_escapeText_NewlinesFirst(str) == ReplaceSpecials(ReplaceNewlines(str))

escapeText(str) == ReplaceNewlines(ReplaceSpecials(str))

RECURSIVE padStart(_, _)
\* String(n).padStart(width, '0')
padStart(s, width) ==
  Bind(s, LAMBDA v : IF Len(v) >= width THEN v ELSE padStart("0" \o v, width))

\* Formatter.num(n, p): the sign stays in front of the padded digits.
FormatNum(n, p) ==
  IF n < 0 THEN "-" \o padStart(NatToString(-n), p) ELSE padStart(NatToString(n), p)

\* Mutant: the reading of the process zone is written with the Z suffix.
Mut_toCalDavUTC_LocalFields(proc, date) ==
  Bind(ZoneFields(proc, SystemZone, date.t), LAMBDA f :
    FormatNum(f.year, 4) \o FormatNum(f.month, 2) \o FormatNum(f.day, 2) \o "T"
      \o FormatNum(f.hour, 2) \o FormatNum(f.minute, 2) \o "00Z")

\* DateTime.fromJSDate(date).toUTC().toFormat("yyyyMMdd'T'HHmmss'Z'") of a
\* valid date, whose seconds are 00 in the model.
toCalDavUTC(proc, date) ==
  Bind(ZoneFields(proc, FixedOffsetZone(0), date.t), LAMBDA f :
    FormatNum(f.year, 4) \o FormatNum(f.month, 2) \o FormatNum(f.day, 2) \o "T"
      \o FormatNum(f.hour, 2) \o FormatNum(f.minute, 2) \o "00Z")

RECURSIVE Join(_, _)
\* lines.join(sep)
Join(lines, sep) ==
  Bind(lines, LAMBDA v :
    IF Len(v) = 0 THEN ""
    ELSE IF Len(v) = 1 THEN v[1]
    ELSE v[1] \o sep \o Join(Tail(v), sep))

\* Whether an optional string is truthy: given and not empty.
Truthy(opt) == ~opt.isNull /\ opt.s # ""

\* generateICal(input) at system time `now`, with `uuid` the value of
\* crypto.randomUUID().  Optional fields of the input are Null when absent.
generateICal(proc, now, uuid, input) ==
  LET domain == IF input.domain.isNull THEN "mcp-server" ELSE input.domain.s
      finalUid == IF Truthy(input.uid) THEN input.uid.s ELSE uuid \o "@" \o domain
  IN Join(<<"BEGIN:VCALENDAR", "VERSION:2.0", "PRODID:-//Standardized ICal Lib//EN",
            "CALSCALE:GREGORIAN", "BEGIN:VEVENT",
            "UID:" \o finalUid,
            "DTSTAMP:" \o toCalDavUTC(proc, [valid |-> TRUE, t |-> now]),
            "DTSTART:" \o toCalDavUTC(proc, input.start),
            "DTEND:" \o toCalDavUTC(proc, input.end),
            "SUMMARY:" \o escapeText(input.title)>>
          \o (IF Truthy(input.description)
              THEN <<"DESCRIPTION:" \o escapeText(input.description.s)>> ELSE <<>>)
          \o (IF Truthy(input.location)
              THEN <<"LOCATION:" \o escapeText(input.location.s)>> ELSE <<>>)
          \o <<"END:VEVENT", "END:VCALENDAR">>,
          "\r\n")

(***************************************************************************)
(* Event formatting (utils/eventFormatting.ts)                             *)
(***************************************************************************)
\* The format token cccc: the English name of ISO weekday n.
WeekdayLong(n) ==
  CASE n = 1 -> "Monday" [] n = 2 -> "Tuesday" [] n = 3 -> "Wednesday"
    [] n = 4 -> "Thursday" [] n = 5 -> "Friday" [] n = 6 -> "Saturday"
    [] n = 7 -> "Sunday"

\* formatDate(date, timezone): null for a null date; toFormat of an invalid
\* DateTime (invalid zone) is the text "Invalid DateTime".
formatDate(proc, date, timezone) ==
  IF ~date.valid THEN Null
  ELSE Bind(normalizeZone(timezone), LAMBDA zone :
         IF zone.type = "invalid" THEN Str("Invalid DateTime")
         ELSE Bind(ZoneFields(proc, zone, date.t), LAMBDA dt :
                LET day == FormatNum(dt.year, 4) \o "-" \o FormatNum(dt.month, 2) \o "-"
                             \o FormatNum(dt.day, 2) \o " ("
                             \o WeekdayLong(jsDayToISOWeekday(
                                  WeekDay(MakeDay(dt.year, dt.month, dt.day)))) \o ")"
                IN IF dt.hour = 0 /\ dt.minute = 0 THEN Str(day)
                   ELSE Str(day \o " " \o FormatNum(dt.hour, 2) \o ":"
                              \o FormatNum(dt.minute, 2))))

\* The time range of formatEvent from the two rendered dates.
TimeRange(startStr, endStr) ==
  IF Truthy(startStr) /\ Truthy(endStr)
  THEN IF startStr.s = endStr.s THEN startStr.s ELSE startStr.s \o " to " \o endStr.s
  ELSE IF Truthy(startStr) THEN startStr.s
  ELSE IF Truthy(endStr) THEN endStr.s
  ELSE "No time"

\* Mutant: the end is always written after the start.
Mut_formatEvent_AlwaysRange(proc, event, timezone) ==
  "- " \o event.title \o ": "
    \o (IF ~event.start.valid /\ ~event.end.valid THEN "No time"
        ELSE (IF event.start.valid THEN formatDate(proc, event.start, timezone).s ELSE "")
             \o " to "
             \o (IF event.end.valid THEN formatDate(proc, event.end, timezone).s ELSE ""))
    \o (IF Truthy(event.location) THEN " at " \o event.location.s ELSE "")

\* formatEvent(event, timezone)
formatEvent(proc, event, timezone) ==
  Bind(TimeRange(formatDate(proc, event.start, timezone),
                 formatDate(proc, event.end, timezone)),
       LAMBDA timeRange :
         "- " \o event.title \o ": " \o timeRange
           \o (IF Truthy(event.location) THEN " at " \o event.location.s ELSE ""))

\* formatEventList(events, emptyMessage, timezone)
formatEventList(proc, events, emptyMessage, timezone) ==
  IF Len(events) = 0 THEN emptyMessage
  ELSE Join([i \in 1..Len(events) |-> formatEvent(proc, events[i], timezone)], "\n")

\* formatDateTime(date, {timezone}) with the default locale fi-FI, weekday
\* and time: the format 'cccc d.M.yyyy HH:mm'.
WeekdayLongFi(n) ==
  CASE n = 1 -> "maanantai" [] n = 2 -> "tiistai" [] n = 3 -> "keskiviikko"
    [] n = 4 -> "torstai" [] n = 5 -> "perjantai" [] n = 6 -> "lauantai"
    [] n = 7 -> "sunnuntai"

formatDateTime(proc, date, timezone) ==
  Bind(normalizeZone(timezone), LAMBDA zone :
    IF ~date.valid \/ zone.type = "invalid" THEN "Invalid DateTime"
    ELSE Bind(ZoneFields(proc, zone, date.t), LAMBDA dt :
           WeekdayLongFi(jsDayToISOWeekday(WeekDay(MakeDay(dt.year, dt.month, dt.day))))
             \o " " \o IntToString(dt.day) \o "." \o IntToString(dt.month) \o "."
             \o FormatNum(dt.year, 4) \o " " \o FormatNum(dt.hour, 2) \o ":"
             \o FormatNum(dt.minute, 2)))

\* formatTime(date, timezone): the format 'HH:mm'.
formatTime(proc, date, timezone) ==
  Bind(normalizeZone(timezone), LAMBDA zone :
    IF ~date.valid \/ zone.type = "invalid" THEN "Invalid DateTime"
    ELSE Bind(ZoneFields(proc, zone, date.t), LAMBDA dt :
           FormatNum(dt.hour, 2) \o ":" \o FormatNum(dt.minute, 2)))

(***************************************************************************)
(* CalDAV client (calDav/calendarClient.ts).  `cp` is the module variable  *)
(* clientPromise when the call starts: "null" or "resolved".  `env` is     *)
(* what the CalDAV server does to the requests of the call.  Every         *)
(* operator gives the settled promise of the call: whether it rejected,    *)
(* the message of the error, the value, the clientPromise it leaves, the   *)
(* requests it sent in order, the calendar objects it stored and the       *)
(* warnings it logged.                                                     *)
(***************************************************************************)
Rejected(message, cp, calls) ==
  [threw |-> TRUE, message |-> message, value |-> <<>>, clientPromise |-> cp,
   calls |-> calls, created |-> <<>>, warns |-> <<>>]

Fulfilled(value, cp, calls) ==
  [threw |-> FALSE, message |-> "", value |-> value, clientPromise |-> cp,
   calls |-> calls, created |-> <<>>, warns |-> <<>>]

\* getAuthenticatedClient: the stored promise if there is one, else a login;
\* a failed login resets clientPromise.
getAuthenticatedClient(cp, env) ==
  IF cp # "null" THEN Fulfilled("client", cp, <<>>)
  ELSE IF env.login = "ok" THEN Fulfilled("client", "resolved", <<"login">>)
  ELSE Rejected("Invalid credentials", "null", <<"login">>)

\* getPrimaryCalendar
getPrimaryCalendar(cp, env) ==
  Bind(getAuthenticatedClient(cp, env), LAMBDA c :
    IF c.threw THEN c
    ELSE IF env.calendars = "fail"
         THEN Rejected("fetch failed", c.clientPromise, c.calls \o <<"fetchCalendars">>)
    ELSE IF env.calendars = "none"
         THEN Rejected("No calendars found for the user.", c.clientPromise,
                       c.calls \o <<"fetchCalendars">>)
    ELSE Fulfilled("calendar", c.clientPromise, c.calls \o <<"fetchCalendars">>))

\* createEvent(input) at system time `now`
createEvent(proc, now, uuid, cp, env, input) ==
  Bind(getPrimaryCalendar(cp, env), LAMBDA p :
    IF p.threw THEN p
    ELSE IF env.create = "fail"
         THEN Rejected("Failed to create the calendar object", p.clientPromise,
                       p.calls \o <<"createCalendarObject">>)
    ELSE [Fulfilled([title |-> input.title, start |-> input.start], p.clientPromise,
                    p.calls \o <<"createCalendarObject">>)
            EXCEPT !.created = <<generateICal(proc, now, uuid, input)>>])

\* The catch clause of listEvents and getEventsInRange.
CatchEmpty(outcome) ==
  IF outcome.threw THEN Fulfilled(<<>>, outcome.clientPromise, outcome.calls) ELSE outcome

\* The try block of listEvents.
TryListEvents(cp, env) ==
  Bind(getPrimaryCalendar(cp, env), LAMBDA p :
    IF p.threw THEN p
    ELSE IF env.objects.kind = "fail"
         THEN Rejected("fetch failed", p.clientPromise,
                       p.calls \o <<"fetchCalendarObjects">>)
    ELSE Fulfilled(IF env.objects.kind = "undefined" THEN <<>> ELSE env.objects.list,
                   p.clientPromise, p.calls \o <<"fetchCalendarObjects">>))

\* Mutant: listEvents without its catch clause.
Mut_listEvents_NoCatch(cp, env) == TryListEvents(cp, env)

\* listEvents()
listEvents(cp, env) == CatchEmpty(TryListEvents(cp, env))

\* parseCalendarObjects(calendarObjects, logger): the objects with data, each
\* mapped to its events.
RECURSIVE parseCalendarObjects(_, _, _)
parseCalendarObjects(proc, now, calendarObjects) ==
  IF Len(calendarObjects) = 0 THEN [events |-> <<>>, warns |-> <<>>]
  ELSE Bind(parseCalendarObjects(proc, now, Tail(calendarObjects)), LAMBDA rest :
         IF ~Truthy(Head(calendarObjects)) THEN rest
         ELSE Bind(mapIcsToCalendarEvents(proc, now, Head(calendarObjects).s), LAMBDA m :
                [events |-> m.events \o rest.events, warns |-> m.warns \o rest.warns]))

\* The try block of getEventsInRange: toISOString of an Invalid Date throws
\* a RangeError before the request is sent.
TryGetEventsInRange(proc, now, cp, env, start, end) ==
  Bind(getPrimaryCalendar(cp, env), LAMBDA p :
    IF p.threw THEN p
    ELSE IF ~start.valid \/ ~end.valid
         THEN Rejected("Invalid time value", p.clientPromise, p.calls)
    ELSE IF env.objects.kind = "fail"
         THEN Rejected("fetch failed", p.clientPromise,
                       p.calls \o <<"fetchCalendarObjects">>)
    ELSE IF env.objects.kind = "undefined" \/ Len(env.objects.list) = 0
         THEN Fulfilled(<<>>, p.clientPromise, p.calls \o <<"fetchCalendarObjects">>)
    ELSE Bind(parseCalendarObjects(proc, now, env.objects.list), LAMBDA parsed :
           [Fulfilled(parsed.events, p.clientPromise,
                      p.calls \o <<"fetchCalendarObjects">>)
              EXCEPT !.warns = parsed.warns]))

\* getEventsInRange(start, end)
getEventsInRange(proc, now, cp, env, start, end) ==
  CatchEmpty(TryGetEventsInRange(proc, now, cp, env, start, end))

(***************************************************************************)
(* Tool handlers (mcp-server/index.ts)                                     *)
(***************************************************************************)
\* The message of an error thrown by getWallClockNow or by the resolver.
\* The tail of the two long messages, which repeats the input, is left out.
ErrorMessage(e) ==
  CASE e.err = "InvalidTimezone" -> "Invalid timezone: \"" \o e.echo \o "\"."
    [] e.err = "InvalidWeekday" -> "Invalid weekday: \"" \o e.echo \o "\"."
    [] e.err = "InvalidTimeFormat" ->
         "Invalid time format: \"" \o e.echo \o "\". Expected \"HH:mm\" (e.g., \"15:00\")."
    [] e.err = "InvalidWallClock" -> "Invalid wall-clock time"
    [] e.err = "DateCalculationInconsistency" ->
         "Date calculation inconsistency: expected " \o e.echo

\* The content a handler returns: one text.
Content(text, outcome) ==
  [threw |-> FALSE, content |-> <<[type |-> "text", text |-> text]>>,
   clientPromise |-> outcome.clientPromise, calls |-> outcome.calls,
   created |-> outcome.created, warns |-> outcome.warns]

\* The catch clause of the two handlers.
CatchError(message, outcome) == Content("Error: " \o message, outcome)

\* The start and the end of the slot of a relative time input; the first
\* error thrown on the way otherwise.
ResolveSlot(proc, now, input) ==
  Bind(getWallClockNow(proc, now,
                       IF input.timezone.isNull THEN DEFAULT_TIMEZONE
                       ELSE input.timezone.s),
       LAMBDA w :
         IF ~w.ok THEN [ok |-> FALSE, message |-> ErrorMessage(w), start |-> NoDate,
                        end |-> NoDate]
         ELSE Bind(calculateAbsoluteDateFromWallClock(proc, now, w.wc, input.weekOffset,
                                                      input.weekday, input.time),
                   LAMBDA s :
                     IF ~s.ok THEN [ok |-> FALSE, message |-> ErrorMessage(s),
                                    start |-> NoDate, end |-> NoDate]
                     ELSE [ok |-> TRUE, message |-> "", start |-> At(s.t),
                           end |-> At(calculateEndDate(proc, s.t,
                                                       input.durationGiven,
                                                       input.durationMinutes))]))

\* Mutant: the createEvent handler stores the event before it resolves the
\* dates.
Mut_createEventTool_StoresFirst(proc, now, uuid, cp, env, input) ==
  Bind(createEvent(proc, now, uuid, cp, env,
                   [title |-> input.title, start |-> At(now), end |-> At(now),
                    description |-> input.description, location |-> input.location,
                    uid |-> Null, domain |-> Null]),
       LAMBDA c :
         IF c.threw THEN CatchError(c.message, c)
         ELSE Bind(ResolveSlot(proc, now, input), LAMBDA slot :
                IF ~slot.ok THEN CatchError(slot.message, c)
                ELSE Content("Successfully scheduled \"" \o input.title \o "\" for "
                               \o formatDateTime(proc, slot.start,
                                                 IF input.timezone.isNull
                                                 THEN DEFAULT_TIMEZONE
                                                 ELSE input.timezone.s), c)))

\* The createEvent tool handler.
createEventTool(proc, now, uuid, cp, env, input) ==
  Bind(ResolveSlot(proc, now, input), LAMBDA slot :
    IF ~slot.ok THEN CatchError(slot.message, Fulfilled(<<>>, cp, <<>>))
    ELSE Bind(createEvent(proc, now, uuid, cp, env,
                          [title |-> input.title, start |-> slot.start,
                           end |-> slot.end, description |-> input.description,
                           location |-> input.location, uid |-> Null,
                           domain |-> Null]),
              LAMBDA c :
                IF c.threw THEN CatchError(c.message, c)
                ELSE Content("Successfully scheduled \"" \o input.title \o "\" for "
                               \o formatDateTime(proc, c.value.start,
                                                 IF input.timezone.isNull
                                                 THEN DEFAULT_TIMEZONE
                                                 ELSE input.timezone.s), c)))

\* The getEventsInTimeSlot tool handler.
getEventsInTimeSlotTool(proc, now, cp, env, input) ==
  Bind(ResolveSlot(proc, now, input), LAMBDA slot :
    IF ~slot.ok THEN CatchError(slot.message, Fulfilled(<<>>, cp, <<>>))
    ELSE Bind(getEventsInRange(proc, now, cp, env, slot.start, slot.end),
              LAMBDA r :
                LET effectiveTimezone == IF input.timezone.isNull THEN DEFAULT_TIMEZONE
                                         ELSE input.timezone.s
                    events == r.value
                    availabilityStatus ==
                      IF Len(events) = 0
                      THEN "AVAILABLE - This time slot is FREE, no events scheduled."
                      ELSE "BUSY - This time slot is NOT FREE. Found "
                             \o NatToString(Len(events)) \o " event(s):"
                    eventList == formatEventList(proc, events, "", effectiveTimezone)
                IN Content("Time slot: "
                             \o formatDateTime(proc, slot.start, effectiveTimezone)
                             \o " - " \o formatTime(proc, slot.end, effectiveTimezone)
                             \o "\n" \o availabilityStatus
                             \o (IF eventList # "" THEN "\n" \o eventList ELSE ""),
                           r)))

(***************************************************************************)
(* HTTP API: POST /api/v1/client (postPrompt) and the error handler        *)
(* (middlewares.ts)                                                        *)
(***************************************************************************)
\* new CustomError(message, status)
CustomError(message, status) == [message |-> message, hasStatus |-> TRUE, status |-> status]

\* errorHandler: err.status && err.status >= 400 ? err.status : 500
errorHandler(err) ==
  [status |-> IF err.hasStatus /\ err.status # 0 /\ err.status >= 400
              THEN err.status ELSE 500,
   message |-> err.message]

\* timezoneSchema: a string that DateTime.local().setZone(tz) accepts.
timezoneSchema(tz) == normalizeZone(tz).type # "invalid"

\* BodySchema.safeParse(body): prompt a string of at least one character,
\* timezone a string of timezoneSchema or absent, then DEFAULT_TIMEZONE.
BodySchema(body) ==
  IF body.prompt.isNull \/ Len(body.prompt.s) < 1
  THEN [success |-> FALSE, prompt |-> "", timezone |-> ""]
  ELSE IF body.timezone.isNull
       THEN [success |-> TRUE, prompt |-> body.prompt.s, timezone |-> DEFAULT_TIMEZONE]
  ELSE IF ~timezoneSchema(body.timezone.s)
       THEN [success |-> FALSE, prompt |-> "", timezone |-> ""]
  ELSE [success |-> TRUE, prompt |-> body.prompt.s, timezone |-> body.timezone.s]

\* postPrompt(req, res, next) followed by the error handler that next(err)
\* reaches; `run` is how runPromptWithMcpServer ends.
postPrompt(body, run) ==
  Bind(BodySchema(body), LAMBDA parseResult :
    IF ~parseResult.success
    THEN [status |-> errorHandler(CustomError("Invalid input", 400)).status,
          started |-> FALSE, timezone |-> ""]
    ELSE IF run = "fail"
         THEN [status |-> errorHandler(CustomError("run failed", 500)).status,
               started |-> TRUE, timezone |-> parseResult.timezone]
    ELSE [status |-> 200, started |-> TRUE, timezone |-> parseResult.timezone])

(***************************************************************************)
(* Tool input schema (utils/weekday.ts: relativeTimeInputSchema)           *)
(***************************************************************************)
\* weekdaySchema: z.enum(WEEKDAYS)
weekdaySchema(weekday) == \E i \in 1..7 : WEEKDAYS[i] = weekday

\* The time field: the regex /^\d{2}:\d{2}$/ and the refinement on
\* time.split(':').map(Number).
timeSchema(time) ==
  /\ Len(time) = 5
  /\ AllDigits(SubSeq(time, 1, 2))
  /\ Char(time, 3) = ":"
  /\ AllDigits(SubSeq(time, 4, 5))
  /\ LET hour == parseInt(SubSeq(time, 1, 2))
         minute == parseInt(SubSeq(time, 4, 5))
     IN hour >= 0 /\ hour < 24 /\ minute >= 0 /\ minute < 60

\* relativeTimeInputSchema on weekOffset (an integer here), weekday and time.
relativeTimeInputSchema(weekOffset, weekday, time) ==
  weekOffset \in Int /\ weekdaySchema(weekday) /\ timeSchema(time)

(***************************************************************************)
(* MCP client (mcp-client/index.ts): runPromptWithMcpServer                *)
(***************************************************************************)
MAX_ROUNDS == 10

ISO_TO_WEEKDAY(n) == WEEKDAYS[n]

\* getCurrentDateInfo(timezone) at system time `now`: the text for the
\* system prompt, or the error of getWallClockNow.
getCurrentDateInfo(proc, now, timezone) ==
  Bind(getWallClockNow(proc, now, timezone), LAMBDA w :
    IF ~w.ok THEN [ok |-> FALSE, message |-> ErrorMessage(w), text |-> ""]
    ELSE Bind(getISOWeekdayFromWallClock(proc, w.wc), LAMBDA isoWeekday :
           [ok |-> TRUE, message |-> "",
            text |-> "Current date: " \o IntToString(w.wc.year) \o "-"
                       \o padStart(IntToString(w.wc.month), 2) \o "-"
                       \o padStart(IntToString(w.wc.day), 2)
                       \o " (" \o ISO_TO_WEEKDAY(isoWeekday) \o "), Current time: "
                       \o padStart(IntToString(w.wc.hour), 2) \o ":"
                       \o padStart(IntToString(w.wc.minute), 2)
                       \o ", Timezone: " \o timezone \o ", ISO weekday: "
                       \o IntToString(isoWeekday) \o " (1=Monday, 7=Sunday)"]))

\* How the promise of a run settles.
NoOutcome == [kind |-> "none", answer |-> "", toolCalls |-> 0, message |-> ""]

RunRejected(message) ==
  [kind |-> "rejected", answer |-> "", toolCalls |-> 0, message |-> message]

RunFulfilled(answer, toolCalls) ==
  [kind |-> "fulfilled", answer |-> answer, toolCalls |-> toolCalls, message |-> ""]

\* A message of the history.
ChatMessage(role, content, tool_calls, tool_call_id) ==
  [role |-> role, content |-> content, tool_calls |-> tool_calls,
   tool_call_id |-> tool_call_id]

ToolMessage(call, content) == ChatMessage("tool", Str(content), <<>>, call.id)

\* JSON.parse(String(call.function.arguments)) returns, on the argument
\* texts of the model: an object text parses, a text cut short does not.
JsonParses(arguments) ==
  /\ Len(arguments) >= 2
  /\ Char(arguments, 1) = "{"
  /\ Char(arguments, Len(arguments)) = "}"

\* The part of the callback of one tool call that runs before its first
\* await: no result for a call that is no function call, the error message
\* for arguments that do not parse, a callTool request otherwise.
StartCall(call) ==
  IF call.type # "function" THEN [state |-> "null", message |-> <<>>]
  ELSE IF ~JsonParses(call.arguments)
       THEN [state |-> "done",
             message |-> ToolMessage(call, "Error: Invalid JSON arguments for tool "
                                             \o call.name \o ": Unexpected end of JSON input")]
  ELSE [state |-> "pending", message |-> <<>>]

\* JSON.stringify(result) for a result that holds text items only.
RECURSIVE JsonTextItems(_)
JsonTextItems(texts) ==
  IF Len(texts) = 0 THEN ""
  ELSE "{\"type\":\"text\",\"text\":\"" \o Head(texts) \o "\"}"
         \o (IF Len(texts) > 1 THEN "," ELSE "") \o JsonTextItems(Tail(texts))

\* textParts.join('\n') || JSON.stringify(result)
finalContent(texts) ==
  IF Join(texts, "\n") # "" THEN Join(texts, "\n")
  ELSE "{\"content\":[" \o JsonTextItems(texts) \o "]}"

\* The rest of the callback, when callTool has settled.
SettleCall(call, result) ==
  IF result.ok THEN [state |-> "done", message |-> ToolMessage(call, finalContent(result.texts))]
  ELSE [state |-> "done",
        message |-> ToolMessage(call, "Error executing tool " \o call.name \o ": "
                                        \o result.message)]

\* Mutant: the results are pushed last call first.
Mut_ToolMessages_Reversed(toolResults) ==
  LET kept == SelectSeq(toolResults, LAMBDA r : r.state # "null")
  IN [k \in 1..Len(kept) |-> kept[Len(kept) + 1 - k].message]

\* toolResults.filter((result) => result !== null), in the order of the
\* calls.
ToolMessages(toolResults) ==
  LET kept == SelectSeq(toolResults, LAMBDA r : r.state # "null")
  IN [k \in 1..Len(kept) |-> kept[k].message]

\* Mutant: the loop makes one more round.
Mut_LoopContinues_OneMore(i) == i <= MAX_ROUNDS

\* The test of the loop: i < MAX_ROUNDS
LoopContinues(i) == i < MAX_ROUNDS

(***************************************************************************)
(* getAuthenticatedClient under concurrent callers (calendarClient.ts)     *)
(***************************************************************************)
\* clientPromise = null
NullPromise == 0

\* if (clientPromise) return clientPromise;
ReturnsStored(stored) == stored # NullPromise

\* Mutant: the catch block leaves the stored promise alone.
Mut_OnLoginFailure_Keep(stored) == stored

\* catch (error) { clientPromise = null; throw error; }
OnLoginFailure(stored) == NullPromise

(***************************************************************************)
(* audioTranscriptionMiddleware (middlewares.ts)                           *)
(***************************************************************************)
\* A thrown value: a CustomError, another Error, or a value without message.
ThrownError(custom, message, status) ==
  [custom |-> custom, message |-> message, status |-> status]

\* Mutant: the catch block hands the error on as it is.
Mut_CatchArgument_Raw(error) ==
  [kind |-> "error", custom |-> error.custom,
   message |-> IF error.message.isNull THEN "" ELSE error.message.s,
   status |-> error.status]

\* The argument the catch block gives to next: the CustomError itself, or
\* new CustomError(error?.message ?? 'Audio transcription failed', 500).
CatchArgument(error) ==
  IF error.custom
  THEN [kind |-> "error", custom |-> TRUE, message |-> error.message.s,
        status |-> error.status]
  ELSE [kind |-> "error", custom |-> TRUE,
        message |-> IF error.message.isNull THEN "Audio transcription failed"
                    ELSE error.message.s,
        status |-> 500]

\* next()
NoArgument == [kind |-> "none", custom |-> FALSE, message |-> "", status |-> 0]

(***************************************************************************)
(* Bounds and input sets                                                   *)
(***************************************************************************)
\* weekOffset ranges over -MaxWeekOffset..MaxWeekOffset and three far values.
MaxWeekOffset == 1

\* A number of weeks that takes a date of 2025 back into the first century.
FarPastWeeks == 100500

\* A number of weeks that takes a date of 2025 out of the range of Date.
HugeWeeks == 20000000

\* The longest duration handed to calculateEndDate is MaxDurationHours hours.
MaxDurationHours == 2

ProcessZones == {"europe/helsinki", "america/new_york"}

\* System times: an ordinary Thursday; the weeks of the spring transitions of
\* Helsinki and New York; the week before the autumn transitions; a year
\* end; the week of a leap day.
Clocks ==
  {UtcInstant(2025, 1, 9, 8, 0), UtcInstant(2025, 3, 27, 12, 0),
   UtcInstant(2025, 3, 5, 12, 0), UtcInstant(2025, 10, 24, 12, 0),
   UtcInstant(2024, 12, 31, 22, 30), UtcInstant(2024, 2, 26, 9, 0)}

TimezoneArgs ==
  {"Europe/Helsinki", "America/New_York", "Asia/Tokyo", "UTC", "europe/helsinki",
   "local", "system", "default", "UTC+3", "utc-5:30", "Mars/Phobos", "",
   "Europe/Helsinki ", "+03:00"}

ResolverZones == {"Europe/Helsinki", "America/New_York", "UTC+3", "system"}

WeekOffsets ==
  (-MaxWeekOffset..MaxWeekOffset) \cup {-FarPastWeeks, HugeWeeks, -HugeWeeks}

CanonicalWeekdays == {WEEKDAYS[i] : i \in 1..7}

WeekdayArgs ==
  CanonicalWeekdays \cup {"Monday", "funday", "", "constructor", "__proto__"}

ValidTimes == {"00:00", "02:30", "03:30", "09:00", "23:59"}

InvalidTimes ==
  {"24:00", "12:60", "99:99", "9:00", "1200", "12:00 ", " 12:00", "ab:cd", "",
   "12:000", "12-00", "12:0a"}

\* Start instants for calculateEndDate: around both transitions of both
\* process zones in 2025, and an ordinary day.
StartInstants ==
  {UtcInstant(2025, 1, 9, 8, 0)} \cup
  {UtcInstant(2025, 3, 30, 0, 0) + 30 * k : k \in 0..3} \cup
  {UtcInstant(2025, 10, 25, 23, 0) + 30 * k : k \in 0..6} \cup
  {UtcInstant(2025, 3, 9, 6, 0) + 30 * k : k \in 0..3} \cup
  {UtcInstant(2025, 11, 2, 4, 30) + 30 * k : k \in 0..6}

Durations == {0, 1, 15, 59} \cup {60 * h : h \in 1..MaxDurationHours}

\* The most events a listing handed to mapIcsToCalendarEvents holds.
MaxEvents == 2

\* System times of the ICS calls: one in winter time, one in summer time.
IcsClocks == {UtcInstant(2025, 1, 9, 8, 0), UtcInstant(2025, 7, 1, 8, 0)}

\* Tokens that match YYYYMMDD(THHMM(SS)?)?Z? once the zone markers are
\* stripped and that name a real date and time.
GoodTokens ==
  {"20250101T120000Z", "20250615T093000", "20250101", "20250101T1200",
   "20250101T120000+0200", "20250101T120000-0500", "20240229T235900Z"}

\* Tokens that do not match the pattern.
MalformedTokens ==
  {"2025-13-40", "garbage", "20250101T12", "2025010", "20250101T120000X",
   "T120000", "TZID=Europe/Helsinki", "TZID=Mars/Phobos:2025-01-01",
   "2025-01-01T12:00:00Z", "Z"}

\* Tokens that match the pattern and name no real date or time.
ImpossibleTokens ==
  {"20251340", "20250230T120000", "20250101T250000", "20250101T126000",
   "20230229T000000Z", "20250101T120060", "20250431T080000+0200",
   "TZID=Europe/Helsinki:20250230T120000"}

TzidValidZones == {"Europe/Helsinki", "America/New_York", "Asia/Tokyo"}

TzidInvalidZones == {"Mars/Phobos", "W. Europe Standard Time", "Europe/Helsinky"}

\* Wall-clock readings of TZID tokens: text and fields.
TzidReadings ==
  {[text |-> "20250101T120000", year |-> 2025, month |-> 1, day |-> 1,
    hour |-> 12, minute |-> 0],
   [text |-> "20250701T083000", year |-> 2025, month |-> 7, day |-> 1,
    hour |-> 8, minute |-> 30],
   [text |-> "20240229T235900", year |-> 2024, month |-> 2, day |-> 29,
    hour |-> 23, minute |-> 59],
   [text |-> "20251026T033000", year |-> 2025, month |-> 10, day |-> 26,
    hour |-> 3, minute |-> 30]}

TzidToken(zone, reading) == "TZID=" \o zone \o ":" \o reading.text

TzidTokens ==
  {TzidToken(z, r) : z \in TzidValidZones \cup TzidInvalidZones, r \in TzidReadings}

\* Numeric offsets sHHMM of ICS tokens: text and signed minutes.
OffsetSuffixes ==
  {[text |-> "+0200", minutes |-> 120], [text |-> "-0500", minutes |-> -300],
   [text |-> "+0545", minutes |-> 345], [text |-> "-0330", minutes |-> -210],
   [text |-> "+0000", minutes |-> 0], [text |-> "-0930", minutes |-> -570]}

OffsetToken(reading, suffix) == reading.text \o suffix.text

OffsetTokens == {OffsetToken(r, o) : r \in TzidReadings, o \in OffsetSuffixes}

IcsTokens ==
  GoodTokens \cup MalformedTokens \cup ImpossibleTokens \cup TzidTokens \cup OffsetTokens

\* The DTSTART values of the events of a listing.
ListingTokens ==
  {"20250101T120000Z", "20250615T093000", "2025-13-40", "garbage", "20250230T120000",
   "TZID=Mars/Phobos:20250101T120000"}

ListingEndTokens == {"20250101T130000Z", "bad"}

EventText(n, startToken, endToken) ==
  "BEGIN:VEVENT\r\nSUMMARY:Event " \o NatToString(n) \o "\r\nDTSTART:" \o startToken
    \o "\r\nDTEND:" \o endToken \o "\r\nEND:VEVENT\r\n"

RECURSIVE EventsText(_, _, _)
EventsText(starts, ends, i) ==
  IF i > Len(starts) THEN ""
  ELSE EventText(i, starts[i], ends[i]) \o EventsText(starts, ends, i + 1)

\* The ICS text of a listing whose events have the given DTSTART and DTEND.
ListingText(starts, ends) ==
  "BEGIN:VCALENDAR\r\nVERSION:2.0\r\n" \o EventsText(starts, ends, 1)
    \o "END:VCALENDAR\r\n"

\* The ICS text of one event whose DTSTART and DTEND lines carry a TZID
\* parameter: DTSTART;TZID=<zone>:<reading>.
TzidParamText(zone, start, end) ==
  "BEGIN:VCALENDAR\r\nVERSION:2.0\r\nBEGIN:VEVENT\r\nSUMMARY:Meeting\r\nDTSTART;TZID="
    \o zone \o ":" \o start.text \o "\r\nDTEND;TZID=" \o zone \o ":" \o end.text
    \o "\r\nEND:VEVENT\r\nEND:VCALENDAR\r\n"

\* The longest text handed to escapeText on its own.
MaxTextLen == 3

EscapeAlphabet == {"a", "n", "\\", ",", ";", "\n"}

RECURSIVE TextsUpTo(_)
TextsUpTo(n) ==
  IF n = 0 THEN {""}
  ELSE {s \o c : s \in TextsUpTo(n - 1), c \in EscapeAlphabet \cup {""}}

EscapeInputs == TextsUpTo(MaxTextLen)

\* Free text of ordinary characters, backslash, comma, semicolon and newline.
FreeTexts ==
  {"Lunch", "Team sync", "A, B; C\nD", "a\\b", "x,y", "semi;colon", "line\nbreak",
   "C:\\n"}

OptionalTexts == {Null, Str("Room 1"), Str("A, B; C\nD"), Str("back\\slash")}

\* Titles, uids and domains that hold line-break characters.
BreakTitles == {"Lunch", "a\rb", "a\r\nb"}

UidArgs == {Null, Str(""), Str("u1@example.org"), Str("a\nb")}

DomainArgs == {Null, Str("example.org"), Str("ex\rample")}

UuidValues == {"123e4567-e89b-12d3-a456-426614174000"}

\* Start instants of encoded events: winter and summer, a leap day, a year
\* end, years of fewer than four digits, and a year before the year 0.
EncodeInstants ==
  {UtcInstant(2025, 1, 9, 8, 0), UtcInstant(2025, 7, 1, 21, 30),
   UtcInstant(2024, 2, 29, 23, 59), UtcInstant(2024, 12, 31, 22, 30),
   UtcInstant(2025, 3, 30, 0, 30), UtcInstant(2025, 10, 26, 0, 30),
   UtcInstant(999, 12, 31, 23, 59), UtcInstant(99, 1, 1, 0, 0),
   UtcInstant(0, 3, 1, 12, 0), UtcInstant(-1, 12, 31, 23, 59),
   UtcInstant(-44, 3, 15, 12, 0)}

EncodeDurations == {0, 60, 1500}

ICalInput(title, start, end, description, location, uid, domain) ==
  [title |-> title, start |-> [valid |-> TRUE, t |-> start],
   end |-> [valid |-> TRUE, t |-> end], description |-> description,
   location |-> location, uid |-> uid, domain |-> domain]

\* The longest list handed to formatEventList.
MaxListLen == 2

CalendarEvent(title, start, end, location) ==
  [title |-> title, start |-> start, end |-> end, location |-> location,
   description |-> Null]

\* Events to format: with both dates, equal dates, one date, no date, dates
\* at midnight of the default zone, with and without a location.
FormatEvents ==
  {CalendarEvent("Lunch", At(UtcInstant(2025, 1, 13, 7, 0)),
                 At(UtcInstant(2025, 1, 13, 8, 0)), Str("Room 1")),
   CalendarEvent("Lunch", At(UtcInstant(2025, 1, 13, 7, 0)),
                 At(UtcInstant(2025, 1, 13, 7, 0)), Null),
   CalendarEvent("Holiday", At(UtcInstant(2025, 1, 12, 22, 0)),
                 At(UtcInstant(2025, 1, 13, 22, 0)), Str("")),
   CalendarEvent("Start only", At(UtcInstant(2025, 7, 1, 21, 30)), NoDate, Null),
   CalendarEvent("End only", NoDate, At(UtcInstant(2025, 7, 1, 21, 30)), Str("Home")),
   CalendarEvent("Untitled", NoDate, NoDate, Null),
   CalendarEvent("Untitled", NoDate, NoDate, Str("Room 1"))}

FormatZones == {"Europe/Helsinki", "America/New_York", "Mars/Phobos"}

EmptyMessages == {"", "No events found."}

EventLists == UNION {[1..n -> FormatEvents] : n \in 0..MaxListLen}

\* The most calendar objects in one answer of the server.
MaxObjects == 2

\* Calendar objects of the server: one without data, one with an event of
\* Monday 2025-01-13, one whose event has a malformed start.
DavObjects ==
  {Null,
   Str(ListingText(<<"20250113T140000Z">>, <<"20250113T150000Z">>)),
   Str(ListingText(<<"garbage">>, <<"20250113T150000Z">>))}

\* What fetchCalendarObjects gives: a failure, undefined, or a list.
ObjectFetches ==
  {[kind |-> "fail", list |-> <<>>], [kind |-> "undefined", list |-> <<>>]}
    \cup {[kind |-> "list", list |-> l] :
            l \in UNION {[1..n -> DavObjects] : n \in 0..MaxObjects}}

\* The answers of the server that a tool handler meets.
ToolObjectFetches ==
  {[kind |-> "fail", list |-> <<>>], [kind |-> "undefined", list |-> <<>>],
   [kind |-> "list",
    list |-> <<Str(ListingText(<<"20250113T140000Z">>, <<"20250113T150000Z">>)),
               Str(ListingText(<<"garbage">>, <<"20250113T150000Z">>))>>]}

\* What the server does during one call.
ServerEnv(login, calendars, objects, create) ==
  [login |-> login, calendars |-> calendars, objects |-> objects, create |-> create]

Logins == {"ok", "fail"}

CalendarFetches == {"fail", "none", "one"}

Creates == {"ok", "fail"}

ClientClock == UtcInstant(2025, 1, 9, 8, 0)

RangeStarts == {At(UtcInstant(2025, 1, 13, 7, 0)), NoDate}

\* Arguments of the tool handlers: the zone omitted, valid or unknown; next
\* week or a week of the year 98; a time in range or out of range.
ToolInputs ==
  {[title |-> "Lunch", weekOffset |-> weekOffset, weekday |-> "monday", time |-> time,
    durationGiven |-> FALSE, durationMinutes |-> 60, description |-> Null,
    location |-> Str("Room 1"), timezone |-> timezone] :
     weekOffset \in {1, -FarPastWeeks}, time \in {"09:00", "24:00"},
     timezone \in {Null, Str("America/New_York"), Str("Mars/Phobos")}}

\* Request bodies: the prompt missing, empty or given; the timezone absent
\* or any of the timezone arguments.
Bodies ==
  {[prompt |-> prompt, timezone |-> timezone] :
     prompt \in {Null, Str(""), Str("What is on Monday?")},
     timezone \in {Null} \cup {Str(tz) : tz \in TimezoneArgs}}

Runs == {"ok", "fail"}

\* Errors handed to the error handler: without status, and with statuses
\* below, at and above 400.
HandledErrors ==
  {[message |-> "Not Found", hasStatus |-> FALSE, status |-> 0]}
    \cup {CustomError("Not Found", status) :
            status \in {0, 200, 302, 399, 400, 404, 500, 503}}

\* Lines that follow the END:VEVENT of an event: nothing, a time zone block
\* with its own DTSTART, single properties, a continuation line, a second
\* event.
TrailingLines ==
  {"",
   "BEGIN:VTIMEZONE\r\nTZID:Europe/Helsinki\r\nBEGIN:STANDARD\r\nDTSTART:19701025T040000\r\nEND:STANDARD\r\nEND:VTIMEZONE\r\n",
   "DTEND:20260101T000000Z\r\n",
   "SUMMARY:Later\r\n",
   "LOCATION:Elsewhere\r\n",
   "DESCRIPTION:More\r\n",
   " and more\r\n",
   "X-OTHER:1\r\n",
   "BEGIN:VEVENT\r\nSUMMARY:Second\r\nDTSTART:20250102T100000Z\r\nEND:VEVENT\r\n"}

\* Events whose END:VEVENT has been read.
EmittedEvents ==
  {"BEGIN:VCALENDAR\r\n" \o EventText(1, "20250101T120000Z", "20250101T130000Z"),
   "BEGIN:VCALENDAR\r\nBEGIN:VEVENT\r\nDTSTART:20250101T120000Z\r\nSUMMARY:Lunch\r\nEND:VEVENT\r\n"}

\* No run: the state before runPromptWithMcpServer is called.  completions,
\* callToolSent, closes, everConnected and failed record what the run has
\* done; varied and variedNow bound what the model of the assistant does.
RunIdle ==
  [pc |-> "idle", timezone |-> "", connected |-> FALSE, everConnected |-> FALSE,
   closes |-> 0, messages |-> <<>>, i |-> 0, toolCallsCount |-> 0,
   completions |-> 0, callToolSent |-> 0, toolCalls |-> <<>>, toolResults |-> <<>>,
   failed |-> {}, varied |-> FALSE, variedNow |-> FALSE,
   pending |-> NoOutcome, outcome |-> NoOutcome]

RunZones == {"Europe/Helsinki", "Mars/Phobos"}

\* Tool calls an assistant message can hold: a function call whose arguments
\* parse, one whose arguments do not, and a call that is no function call.
FnCall == [type |-> "function", name |-> "listEvents", arguments |-> "{}"]

BadJsonCall == [type |-> "function", name |-> "createEvent", arguments |-> "{\"title\":"]

CustomCall == [type |-> "custom", name |-> "", arguments |-> ""]

CallShapes ==
  {<<FnCall>>, <<BadJsonCall>>, <<CustomCall>>, <<FnCall, FnCall>>,
   <<FnCall, BadJsonCall>>, <<BadJsonCall, CustomCall, FnCall>>}

\* The call ids the assistant gives in round i.
WithIds(shape, i) ==
  [k \in 1..Len(shape) |->
     [id |-> "call_" \o NatToString(i) \o "_" \o NatToString(k), type |-> shape[k].type,
      name |-> shape[k].name, arguments |-> shape[k].arguments]]

\* What a completion request can give: a failure, no message, an answer
\* with or without content, a request for tools.  One round of a run takes
\* any of the call shapes, the other rounds one function call.
Completions(r) ==
  {[kind |-> "fail", content |-> Null, shape |-> <<>>, free |-> FALSE],
   [kind |-> "noMessage", content |-> Null, shape |-> <<>>, free |-> FALSE],
   [kind |-> "message", content |-> Str("Done."), shape |-> <<>>, free |-> FALSE],
   [kind |-> "message", content |-> Null, shape |-> <<>>, free |-> FALSE],
   [kind |-> "message", content |-> Null, shape |-> <<FnCall>>, free |-> FALSE]}
    \cup (IF r.varied THEN {}
          ELSE {[kind |-> "message", content |-> Null, shape |-> s, free |-> TRUE] :
                  s \in CallShapes})

\* How callTool settles.
ToolResults(r) ==
  {[ok |-> TRUE, texts |-> <<"No events found.">>, message |-> ""]}
    \cup (IF r.variedNow
          THEN {[ok |-> TRUE, texts |-> <<>>, message |-> ""],
                [ok |-> FALSE, texts |-> <<>>, message |-> "Request timed out"]}
          ELSE {})

\* The module after loading: no promise stored, no login started, no call
\* made.  state[p] is where the async function of promise p stands: its
\* login is in flight ("login"), the login has settled and the function
\* has not resumed ("loginOk", "loginFailed"), or the promise has settled
\* ("resolved", "rejected").  got[c] is the promise call c returned.
AuthIdle == [clientPromise |-> NullPromise, state |-> <<>>, got |-> <<>>]

MaxCallers == 5

\* No request in the middleware.  nextCalls holds the arguments of the calls
\* of next, unlinks the paths given to fs.unlink, logged the number of
\* console.error calls of cleanup, failed whether the try block threw.
NoFile == ""

UploadIdle ==
  [pc |-> "idle", file |-> NoFile, prompt |-> Null, nextCalls |-> <<>>,
   unlinks |-> <<>>, logged |-> 0, failed |-> FALSE]

UploadedFiles == {NoFile, "uploads/3f2a", "uploads/9c41"}

ReadErrors ==
  {ThrownError(FALSE, Str("ENOENT: no such file or directory"), 0),
   ThrownError(FALSE, Str("EACCES: permission denied"), 0)}

Transcriptions == {Str("What is on Monday?"), Str(""), Null}

\* What fetchData throws: a CustomError with the status of the response,
\* another Error, a value without message.
FetchErrors ==
  {ThrownError(TRUE, Str("Unauthorized"), 401),
   ThrownError(TRUE, Str("Service Unavailable"), 503),
   ThrownError(FALSE, Str("fetch failed"), 0),
   ThrownError(FALSE, Null, 0)}

\* The calendar of the server and the createEvent calls under way: the
\* system clock in milliseconds, the number of UUIDs drawn, the objects of
\* the calendar (file name and UID of the event), and for each call its
\* position with the file name and UID it sent.
CalendarIdle == [clock |-> 1, uuids |-> 0, objects |-> {}, calls |-> <<>>]

MaxCreates == 3

MaxTicks == 2

\* `${Date.now()}.ics`
Filename(clock) == NatToString(clock) \o ".ics"

\* `${crypto.randomUUID()}@${domain}`: the n-th UUID drawn.
FinalUid(n) == "uuid-" \o NatToString(n) \o "@mcp-server"

\* What a PUT on an existing file name can do: the server answers 412 to
\* If-None-Match and the response is not looked at, the server replaces the
\* object, or the request fails.
Collisions == {"ignored", "replaced", "failed"}

(***************************************************************************)
(* State: the zone of the process, and the call in progress with its       *)
(* arguments, its result and the warnings it logged; op = "none" between   *)
(* calls.                                                                  *)
(***************************************************************************)
(* `promptRun` is one run of runPromptWithMcpServer, `auth` the login promises of  *)
(* getAuthenticatedClient under concurrent callers, `upload` one request    *)
(* through audioTranscriptionMiddleware, `calendar` the calendar store      *)
(* under concurrent createEvent calls.                                      *)
VARIABLES procTZ, op, args, ret, warnings, clientPromise, promptRun, auth, upload, calendar

vars == <<procTZ, op, args, ret, warnings, clientPromise, promptRun, auth, upload, calendar>>

\* What a single call leaves alone.
ext == <<promptRun, auth, upload, calendar>>

\* What the step-wise processes leave alone.
callVars == <<procTZ, op, args, ret, warnings, clientPromise>>

Init ==
  /\ procTZ \in ProcessZones
  /\ op = "none"
  /\ args = <<>>
  /\ ret = <<>>
  /\ warnings = <<>>
  /\ clientPromise = "null"
  /\ promptRun = RunIdle
  /\ auth = AuthIdle
  /\ upload = UploadIdle
  /\ calendar = CalendarIdle

\* getWallClockNow(timezone), timezone given or omitted.
GetWallClockNow ==
  /\ op = "none"
  /\ \E now \in Clocks, given \in BOOLEAN, timezone \in TimezoneArgs :
    /\ given \/ timezone = DEFAULT_TIMEZONE
    /\ op' = "getWallClockNow"
    /\ args' = [now |-> now, given |-> given, timezone |-> timezone]
    /\ ret' = getWallClockNow(procTZ, now, timezone)
    /\ UNCHANGED <<procTZ, warnings, clientPromise, ext>>

\* The date resolution of a tool handler: wallClockNow =
\* getWallClockNow(timezone), then calculateAbsoluteDateFromWallClock.
ResolveWith(now, timezone, weekOffset, weekday, time) ==
  LET wallClockNow == getWallClockNow(procTZ, now, timezone)
  IN /\ wallClockNow.ok
     /\ op' = "resolve"
     /\ args' = [now |-> now, wallClockNow |-> wallClockNow.wc,
                 weekOffset |-> weekOffset, weekday |-> weekday, time |-> time]
     /\ ret' = calculateAbsoluteDateFromWallClock(procTZ, now, wallClockNow.wc,
                                                  weekOffset, weekday, time)
     /\ UNCHANGED <<procTZ, warnings, clientPromise, ext>>

Resolve ==
  /\ op = "none"
  /\ \E now \in Clocks, timezone \in ResolverZones, weekOffset \in WeekOffsets,
     weekday \in WeekdayArgs, time \in ValidTimes :
    ResolveWith(now, timezone, weekOffset, weekday, time)

ResolveInvalidTime ==
  /\ op = "none"
  /\ \E now \in {UtcInstant(2025, 1, 9, 8, 0)}, weekOffset \in {0, -HugeWeeks},
     weekday \in {"monday", "funday", "constructor"}, time \in InvalidTimes :
    ResolveWith(now, DEFAULT_TIMEZONE, weekOffset, weekday, time)

CalculateEndDate ==
  /\ op = "none"
  /\ \E startDate \in StartInstants, given \in BOOLEAN, durationMinutes \in Durations :
    /\ given \/ durationMinutes = 60
    /\ op' = "calculateEndDate"
    /\ args' = [startDate |-> startDate, given |-> given,
                durationMinutes |-> durationMinutes]
    /\ ret' = calculateEndDate(procTZ, startDate, given, durationMinutes)
    /\ UNCHANGED <<procTZ, warnings, clientPromise, ext>>

\* parseIcsDate(token, logger), token given or undefined.
ParseIcsDate ==
  /\ op = "none"
  /\ \E now \in IcsClocks, defined \in BOOLEAN, token \in IcsTokens \cup {""} :
       /\ defined \/ token = ""
       /\ op' = "parseIcsDate"
       /\ args' = [now |-> now, defined |-> defined, token |-> token]
       /\ ret' = parseIcsDate(procTZ, now, defined, token).date
       /\ warnings' = parseIcsDate(procTZ, now, defined, token).warns
       /\ UNCHANGED <<procTZ, clientPromise, ext>>

\* mapIcsToCalendarEvents(ics, logger) on a listing of 1..MaxEvents events.
MapIcsToCalendarEvents ==
  /\ op = "none"
  /\ \E now \in IcsClocks, n \in 1..MaxEvents :
       \E starts \in [1..n -> ListingTokens], ends \in [1..n -> ListingEndTokens] :
         /\ op' = "mapIcsToCalendarEvents"
         /\ args' = [now |-> now, starts |-> starts, ends |-> ends,
                     ics |-> ListingText(starts, ends)]
         /\ ret' = mapIcsToCalendarEvents(procTZ, now, ListingText(starts, ends)).events
         /\ warnings' = mapIcsToCalendarEvents(procTZ, now, ListingText(starts, ends)).warns
         /\ UNCHANGED <<procTZ, clientPromise, ext>>

\* mapIcsToCalendarEvents(ics, logger) on an event whose dates carry a TZID
\* parameter.
MapIcsTzidParam ==
  /\ op = "none"
  /\ \E now \in IcsClocks, zone \in TzidValidZones, start \in TzidReadings,
        end \in TzidReadings :
       /\ op' = "mapIcsTzidParam"
       /\ args' = [now |-> now, zone |-> zone, start |-> start, end |-> end,
                   ics |-> TzidParamText(zone, start, end)]
       /\ ret' = mapIcsToCalendarEvents(procTZ, now, TzidParamText(zone, start, end)).events
       /\ warnings' = mapIcsToCalendarEvents(procTZ, now, TzidParamText(zone, start, end)).warns
       /\ UNCHANGED <<procTZ, clientPromise, ext>>

\* escapeText(str)
EscapeText ==
  /\ op = "none"
  /\ \E str \in EscapeInputs :
       /\ op' = "escapeText"
       /\ args' = [str |-> str]
       /\ ret' = escapeText(str)
       /\ UNCHANGED <<procTZ, warnings, clientPromise, ext>>

\* generateICal(input) at system time `now`.
GenerateICalWith(now, uuid, input) ==
  /\ op' = "generateICal"
  /\ args' = [now |-> now, uuid |-> uuid, input |-> input]
  /\ ret' = generateICal(procTZ, now, uuid, input)
  /\ UNCHANGED <<procTZ, warnings, clientPromise, ext>>

\* generateICal on free text.
GenerateICal ==
  /\ op = "none"
  /\ \E now \in {UtcInstant(2025, 1, 9, 8, 0)}, uuid \in UuidValues, title \in FreeTexts,
        description \in OptionalTexts, location \in OptionalTexts :
       GenerateICalWith(now, uuid,
                        ICalInput(title, UtcInstant(2025, 1, 13, 7, 0),
                                  UtcInstant(2025, 1, 13, 8, 0), description, location,
                                  Null, Null))

\* generateICal on uids, domains and titles that hold line-break characters.
GenerateICalIds ==
  /\ op = "none"
  /\ \E now \in {UtcInstant(2025, 1, 9, 8, 0)}, uuid \in UuidValues, title \in BreakTitles,
        uid \in UidArgs, domain \in DomainArgs :
       GenerateICalWith(now, uuid,
                        ICalInput(title, UtcInstant(2025, 1, 13, 7, 0),
                                  UtcInstant(2025, 1, 13, 8, 0), Null, Null, uid, domain))

\* generateICal on start and end instants.
GenerateICalDates ==
  /\ op = "none"
  /\ \E now \in IcsClocks, uuid \in UuidValues, start \in EncodeInstants,
        d \in EncodeDurations :
       GenerateICalWith(now, uuid,
                        ICalInput("Lunch", start, start + d, Null, Null, Null, Null))

\* formatEventList(events, emptyMessage, timezone)
FormatEventList ==
  /\ op = "none"
  /\ \E events \in EventLists, emptyMessage \in EmptyMessages, timezone \in FormatZones :
       /\ op' = "formatEventList"
       /\ args' = [events |-> events, emptyMessage |-> emptyMessage,
                   timezone |-> timezone]
       /\ ret' = formatEventList(procTZ, events, emptyMessage, timezone)
       /\ UNCHANGED <<procTZ, warnings, clientPromise, ext>>

\* listEvents()
ListEvents ==
  /\ op = "none"
  /\ \E login \in Logins, calendars \in CalendarFetches, objects \in ObjectFetches :
       LET env == ServerEnv(login, calendars, objects, "ok")
       IN /\ op' = "listEvents"
          /\ args' = [clientPromise |-> clientPromise, env |-> env]
          /\ ret' = listEvents(clientPromise, env)
          /\ clientPromise' = listEvents(clientPromise, env).clientPromise
          /\ UNCHANGED <<procTZ, warnings, ext>>

\* getEventsInRange(start, end)
GetEventsInRange ==
  /\ op = "none"
  /\ \E login \in Logins, calendars \in CalendarFetches, objects \in ObjectFetches,
        start \in RangeStarts :
       LET env == ServerEnv(login, calendars, objects, "ok")
           end == At(UtcInstant(2025, 1, 13, 8, 0))
       IN /\ op' = "getEventsInRange"
          /\ args' = [clientPromise |-> clientPromise, env |-> env, start |-> start,
                      end |-> end]
          /\ ret' = getEventsInRange(procTZ, ClientClock, clientPromise, env, start, end)
          /\ clientPromise' =
               getEventsInRange(procTZ, ClientClock, clientPromise, env, start,
                                end).clientPromise
          /\ warnings' =
               getEventsInRange(procTZ, ClientClock, clientPromise, env, start,
                                end).warns
          /\ UNCHANGED <<procTZ, ext>>

\* A call of the createEvent tool.
CreateEventTool ==
  /\ op = "none"
  /\ \E login \in Logins, calendars \in CalendarFetches, create \in Creates,
        uuid \in UuidValues, input \in ToolInputs :
       LET env == ServerEnv(login, calendars, [kind |-> "undefined", list |-> <<>>],
                            create)
       IN /\ op' = "createEventTool"
          /\ args' = [clientPromise |-> clientPromise, env |-> env, now |-> ClientClock,
                      input |-> input]
          /\ ret' = createEventTool(procTZ, ClientClock, uuid, clientPromise, env, input)
          /\ clientPromise' =
               createEventTool(procTZ, ClientClock, uuid, clientPromise, env,
                               input).clientPromise
          /\ UNCHANGED <<procTZ, warnings, ext>>

\* A call of the getEventsInTimeSlot tool.
GetEventsInTimeSlotTool ==
  /\ op = "none"
  /\ \E login \in Logins, calendars \in CalendarFetches, objects \in ToolObjectFetches,
        input \in ToolInputs :
       LET env == ServerEnv(login, calendars, objects, "ok")
       IN /\ op' = "getEventsInTimeSlotTool"
          /\ args' = [clientPromise |-> clientPromise, env |-> env, now |-> ClientClock,
                      input |-> input]
          /\ ret' = getEventsInTimeSlotTool(procTZ, ClientClock, clientPromise, env, input)
          /\ clientPromise' =
               getEventsInTimeSlotTool(procTZ, ClientClock, clientPromise, env,
                                       input).clientPromise
          /\ warnings' =
               getEventsInTimeSlotTool(procTZ, ClientClock, clientPromise, env,
                                       input).warns
          /\ UNCHANGED <<procTZ, ext>>

\* POST /api/v1/client
PostPrompt ==
  /\ op = "none"
  /\ \E body \in Bodies, run \in Runs :
       /\ op' = "postPrompt"
       /\ args' = [body |-> body, run |-> run]
       /\ ret' = postPrompt(body, run)
       /\ UNCHANGED <<procTZ, warnings, clientPromise, ext>>

\* The error handler on an error of any route.
ErrorHandler ==
  /\ op = "none"
  /\ \E err \in HandledErrors :
       /\ op' = "errorHandler"
       /\ args' = [err |-> err]
       /\ ret' = errorHandler(err)
       /\ UNCHANGED <<procTZ, warnings, clientPromise, ext>>

\* The schema of the tools on a relative time input.
ParseToolInput ==
  /\ op = "none"
  /\ \E weekOffset \in {0, 1}, weekday \in WeekdayArgs,
        time \in ValidTimes \cup InvalidTimes :
       /\ op' = "relativeTimeInputSchema"
       /\ args' = [now |-> ClientClock, weekOffset |-> weekOffset,
                   weekday |-> weekday, time |-> time]
       /\ ret' = relativeTimeInputSchema(weekOffset, weekday, time)
       /\ UNCHANGED <<procTZ, warnings, clientPromise, ext>>

\* icsToJson on an event followed by further lines.
IcsToJson ==
  /\ op = "none"
  /\ \E emitted \in EmittedEvents, trailing \in TrailingLines :
       /\ op' = "icsToJson"
       /\ args' = [emitted |-> emitted, trailing |-> trailing]
       /\ ret' = icsToJson(emitted \o trailing \o "END:VCALENDAR\r\n")
       /\ UNCHANGED <<procTZ, warnings, clientPromise, ext>>

\* What the steps of a run leave alone.
exceptRun == <<callVars, auth, upload, calendar>>

\* runPromptWithMcpServer(prompt, timezone) up to mcpClient.connect: the two
\* environment variables are set or not.
RunStart ==
  /\ promptRun.pc = "idle"
  /\ \E timezone \in RunZones, envSet \in BOOLEAN :
       promptRun' =
         IF ~envSet
         THEN [RunIdle EXCEPT !.pc = "settled",
                 !.outcome = RunRejected("MCP_SERVER_URL environment variable is not set")]
         ELSE [RunIdle EXCEPT !.pc = "connecting", !.timezone = timezone]
  /\ UNCHANGED exceptRun

\* connect settles; on success the date info and the first two messages are
\* built, and the try block is entered with the listTools request.
RunConnect ==
  /\ promptRun.pc = "connecting"
  /\ \E ok \in BOOLEAN :
       promptRun' =
         IF ~ok
         THEN [promptRun EXCEPT !.pc = "settled", !.outcome = RunRejected("connect failed")]
         ELSE LET dateInfo == getCurrentDateInfo(procTZ, ClientClock, promptRun.timezone)
              IN IF ~dateInfo.ok
                 THEN [promptRun EXCEPT !.pc = "settled", !.connected = TRUE,
                         !.everConnected = TRUE,
                         !.outcome = RunRejected(dateInfo.message)]
                 ELSE [promptRun EXCEPT !.pc = "listTools", !.connected = TRUE,
                         !.everConnected = TRUE,
                         !.messages =
                            <<ChatMessage("system", Str(dateInfo.text), <<>>, ""),
                              ChatMessage("user", Str("What is on Monday?"), <<>>, "")>>]
  /\ UNCHANGED exceptRun

\* listTools settles; on success the loop starts with i = 0 and sends the
\* first completion request.
RunListTools ==
  /\ promptRun.pc = "listTools"
  /\ \E ok \in BOOLEAN :
       promptRun' =
         IF ~ok
         THEN [promptRun EXCEPT !.pc = "closing",
                 !.pending = RunRejected("listTools failed")]
         ELSE IF LoopContinues(0)
              THEN [promptRun EXCEPT !.pc = "completion", !.i = 0, !.completions = @ + 1]
              ELSE [promptRun EXCEPT !.pc = "closing",
                      !.pending = RunRejected("Max tool rounds reached (10). The model kept requesting tools.")]
  /\ UNCHANGED exceptRun

\* The completion request settles: lines 115-185 up to the awaits of the
\* tool calls.
RunCompletion ==
  /\ promptRun.pc = "completion"
  /\ \E c \in Completions(promptRun) :
       promptRun' =
         IF c.kind = "fail"
         THEN [promptRun EXCEPT !.pc = "closing", !.pending = RunRejected("fetch failed")]
         ELSE IF c.kind = "noMessage"
         THEN [promptRun EXCEPT !.pc = "closing",
                 !.pending = RunRejected("No message returned from OpenAI")]
         ELSE LET tool_calls == WithIds(c.shape, promptRun.i)
                  pushed == Append(promptRun.messages,
                                   ChatMessage("assistant", c.content, tool_calls, ""))
                  started == [k \in 1..Len(tool_calls) |-> StartCall(tool_calls[k])]
              IN IF Len(tool_calls) = 0
                 THEN [promptRun EXCEPT !.pc = "closing", !.messages = pushed,
                         !.pending = RunFulfilled(IF Truthy(c.content) THEN c.content.s
                                                  ELSE "",
                                                  promptRun.toolCallsCount)]
                 ELSE [promptRun EXCEPT !.pc = "tools", !.messages = pushed,
                         !.toolCallsCount = @ + Len(tool_calls),
                         !.toolCalls = tool_calls,
                         !.toolResults = started,
                         !.callToolSent =
                            @ + Cardinality({k \in 1..Len(started) :
                                               started[k].state = "pending"}),
                         !.varied = @ \/ c.free, !.variedNow = c.free]
  /\ UNCHANGED exceptRun

\* One callTool of the round settles, in any order.
RunToolSettles ==
  /\ promptRun.pc = "tools"
  /\ \E k \in 1..Len(promptRun.toolResults), result \in ToolResults(promptRun) :
       /\ promptRun.toolResults[k].state = "pending"
       /\ promptRun' =
            [promptRun EXCEPT
               !.toolResults[k] = SettleCall(promptRun.toolCalls[k], result),
               !.failed = IF result.ok THEN @ ELSE @ \cup {promptRun.toolCalls[k].id}]
  /\ UNCHANGED exceptRun

\* Promise.all has settled: the results are pushed and the loop goes on.
RunGather ==
  /\ promptRun.pc = "tools"
  /\ \A k \in 1..Len(promptRun.toolResults) : promptRun.toolResults[k].state # "pending"
  /\ promptRun' =
       LET pushed == promptRun.messages \o ToolMessages(promptRun.toolResults)
       IN IF LoopContinues(promptRun.i + 1)
          THEN [promptRun EXCEPT !.pc = "completion", !.messages = pushed, !.i = @ + 1,
                  !.completions = @ + 1, !.toolCalls = <<>>, !.toolResults = <<>>,
                  !.variedNow = FALSE]
          ELSE [promptRun EXCEPT !.pc = "closing", !.messages = pushed, !.i = @ + 1,
                  !.toolCalls = <<>>, !.toolResults = <<>>, !.variedNow = FALSE,
                  !.pending = RunRejected("Max tool rounds reached (10). The model kept requesting tools.")]
  /\ UNCHANGED exceptRun

\* finally: transport.close() settles and the promise of the run settles
\* as the try block ended.  close() of the streamable HTTP transport aborts
\* the requests of the connection and has no failure of its own.
RunClose ==
  /\ promptRun.pc = "closing"
  /\ promptRun' =
       [promptRun EXCEPT !.pc = "settled", !.connected = FALSE, !.closes = @ + 1,
          !.outcome = promptRun.pending, !.pending = NoOutcome]
  /\ UNCHANGED exceptRun

\* The caller has the result of the run.
RunReset ==
  /\ promptRun.pc = "settled"
  /\ promptRun' = RunIdle
  /\ UNCHANGED exceptRun

\* What the steps of getAuthenticatedClient leave alone.
exceptAuth == <<callVars, promptRun, upload, calendar>>

\* One call of getAuthenticatedClient(): it returns the stored promise, or
\* starts the async function, which runs up to `await client.login()`, and
\* stores and returns its promise.
AuthCall ==
  /\ Len(auth.got) < MaxCallers
  /\ auth' =
       IF ReturnsStored(auth.clientPromise)
       THEN [auth EXCEPT !.got = Append(@, auth.clientPromise)]
       ELSE [auth EXCEPT !.clientPromise = Len(auth.state) + 1,
                         !.state = Append(@, "login"),
                         !.got = Append(@, Len(auth.state) + 1)]
  /\ UNCHANGED exceptAuth

\* client.login() settles; the async function resumes in a later job.
AuthLoginSettles ==
  /\ \E p \in 1..Len(auth.state), ok \in BOOLEAN :
       /\ auth.state[p] = "login"
       /\ auth' = [auth EXCEPT !.state[p] = IF ok THEN "loginOk" ELSE "loginFailed"]
  /\ UNCHANGED exceptAuth

\* The async function resumes after the await: return client, or the catch
\* block.
AuthResume ==
  /\ \E p \in 1..Len(auth.state) :
       \/ /\ auth.state[p] = "loginOk"
          /\ auth' = [auth EXCEPT !.state[p] = "resolved"]
       \/ /\ auth.state[p] = "loginFailed"
          /\ auth' = [auth EXCEPT !.state[p] = "rejected",
                                  !.clientPromise = OnLoginFailure(@)]
  /\ UNCHANGED exceptAuth

\* The server process restarts: the module is loaded anew.
AuthRestart ==
  /\ Len(auth.got) = MaxCallers
  /\ \A p \in 1..Len(auth.state) : auth.state[p] \in {"resolved", "rejected"}
  /\ auth' = AuthIdle
  /\ UNCHANGED exceptAuth

\* What the steps of the middleware leave alone.
exceptUpload == <<callVars, promptRun, auth, calendar>>

\* Enters the catch block with `error`, then the finally block.
UploadCatch(error) ==
  [upload EXCEPT !.pc = "cleanup", !.failed = TRUE,
                 !.nextCalls = Append(@, CatchArgument(error))]

\* audioTranscriptionMiddleware(req, res, next) up to its first await.
UploadStart ==
  /\ upload.pc = "idle"
  /\ \E file \in UploadedFiles, configured \in BOOLEAN :
       upload' =
         IF file = NoFile
         THEN [UploadIdle EXCEPT !.pc = "done", !.nextCalls = <<NoArgument>>]
         ELSE IF ~configured
         THEN [UploadCatch(ThrownError(TRUE,
                  Str("Audio transcription service is not configured on the server"), 500))
                 EXCEPT !.file = file]
         ELSE [UploadIdle EXCEPT !.pc = "readFile", !.file = file]
  /\ UNCHANGED exceptUpload

\* fs.readFile settles; on success the transcription request is sent.
UploadReadFile ==
  /\ upload.pc = "readFile"
  /\ \/ upload' = [upload EXCEPT !.pc = "transcription"]
     \/ \E error \in ReadErrors : upload' = UploadCatch(error)
  /\ UNCHANGED exceptUpload

\* fetchData settles; on success the prompt is set and next() is called.
UploadTranscription ==
  /\ upload.pc = "transcription"
  /\ \/ \E text \in Transcriptions :
          upload' = [upload EXCEPT !.pc = "cleanup", !.prompt = text,
                                   !.nextCalls = Append(@, NoArgument)]
     \/ \E error \in FetchErrors : upload' = UploadCatch(error)
  /\ UNCHANGED exceptUpload

\* finally: cleanup() settles; a failure of fs.unlink is logged.
UploadCleanup ==
  /\ upload.pc = "cleanup"
  /\ \E ok \in BOOLEAN :
       upload' = [upload EXCEPT !.pc = "done", !.unlinks = Append(@, upload.file),
                                !.logged = IF ok THEN @ ELSE @ + 1]
  /\ UNCHANGED exceptUpload

\* The next request.
UploadReset ==
  /\ upload.pc = "done"
  /\ upload' = UploadIdle
  /\ UNCHANGED exceptUpload

\* What the steps of the createEvent calls leave alone.
exceptCalendar == <<callVars, promptRun, auth, upload>>

\* createEvent(input) is called: getPrimaryCalendar is awaited.
CreateStart ==
  /\ Len(calendar.calls) < MaxCreates
  /\ calendar' =
       [calendar EXCEPT !.calls =
          Append(@, [pc |-> "getPrimaryCalendar", filename |-> "", uid |-> ""])]
  /\ UNCHANGED exceptCalendar

\* getPrimaryCalendar settles for call c: it throws, or generateICal draws
\* a UID, the file name is taken from the clock and the PUT is sent.
CreatePut ==
  /\ \E c \in 1..Len(calendar.calls), ok \in BOOLEAN :
       /\ calendar.calls[c].pc = "getPrimaryCalendar"
       /\ calendar' =
            IF ~ok THEN [calendar EXCEPT !.calls[c].pc = "failed"]
            ELSE [calendar EXCEPT
                    !.uuids = @ + 1,
                    !.calls[c] = [pc |-> "createCalendarObject",
                                  filename |-> Filename(calendar.clock),
                                  uid |-> FinalUid(calendar.uuids + 1)]]
  /\ UNCHANGED exceptCalendar

\* createCalendarObject settles for call c, and createEvent returns.
CreateSettles ==
  /\ \E c \in 1..Len(calendar.calls) :
       LET call == calendar.calls[c]
           object == [filename |-> call.filename, uid |-> call.uid]
           taken == {o \in calendar.objects : o.filename = call.filename}
       IN /\ call.pc = "createCalendarObject"
          /\ IF taken = {}
             THEN calendar' = [calendar EXCEPT !.calls[c].pc = "done",
                                               !.objects = @ \cup {object}]
             ELSE \E collision \in Collisions :
                    calendar' =
                      IF collision = "ignored"
                      THEN [calendar EXCEPT !.calls[c].pc = "done"]
                      ELSE IF collision = "replaced"
                      THEN [calendar EXCEPT !.calls[c].pc = "done",
                                            !.objects = (@ \ taken) \cup {object}]
                      ELSE [calendar EXCEPT !.calls[c].pc = "failed"]
  /\ UNCHANGED exceptCalendar

\* A millisecond passes.
ClockTick ==
  /\ calendar.clock <= MaxTicks
  /\ calendar' = [calendar EXCEPT !.clock = @ + 1]
  /\ UNCHANGED exceptCalendar

\* All calls have returned; a new calendar.
CalendarReset ==
  /\ Len(calendar.calls) = MaxCreates
  /\ \A c \in 1..Len(calendar.calls) : calendar.calls[c].pc \in {"done", "failed"}
  /\ calendar' = CalendarIdle
  /\ UNCHANGED exceptCalendar

\* The caller takes the result; the next call starts from a clean slate.
Return ==
  /\ op # "none"
  /\ op' = "none"
  /\ args' = <<>>
  /\ ret' = <<>>
  /\ warnings' = <<>>
  /\ UNCHANGED <<procTZ, clientPromise, ext>>

Next ==
  \/ GetWallClockNow
  \/ Resolve
  \/ ResolveInvalidTime
  \/ CalculateEndDate
  \/ ParseIcsDate
  \/ MapIcsToCalendarEvents
  \/ MapIcsTzidParam
  \/ EscapeText
  \/ GenerateICal
  \/ GenerateICalIds
  \/ GenerateICalDates
  \/ FormatEventList
  \/ IcsToJson
  \/ Return

Spec == Init /\ [][Next]_vars

\* The calls of the server side: the CalDAV client, the tool handlers and
\* the HTTP API.
NextCalDav ==
  \/ ListEvents
  \/ GetEventsInRange
  \/ CreateEventTool
  \/ GetEventsInTimeSlotTool
  \/ PostPrompt
  \/ ErrorHandler
  \/ ParseToolInput
  \/ Return

SpecCalDav == Init /\ [][NextCalDav]_vars

\* Concurrent createEvent calls on one calendar.
NextCalendar == CreateStart \/ CreatePut \/ CreateSettles \/ ClockTick \/ CalendarReset

SpecCalendar == Init /\ [][NextCalendar]_vars

\* Requests through audioTranscriptionMiddleware, one after another.
NextUpload ==
  \/ UploadStart
  \/ UploadReadFile
  \/ UploadTranscription
  \/ UploadCleanup
  \/ UploadReset

SpecUpload == Init /\ [][NextUpload]_vars

\* Concurrent callers of getAuthenticatedClient.
NextAuth == AuthCall \/ AuthLoginSettles \/ AuthResume \/ AuthRestart

SpecAuth == Init /\ [][NextAuth]_vars

\* One run of runPromptWithMcpServer after another.
NextRun ==
  \/ RunStart
  \/ RunConnect
  \/ RunListTools
  \/ RunCompletion
  \/ RunToolSettles
  \/ RunGather
  \/ RunClose
  \/ RunReset

SpecRun == Init /\ [][NextRun]_vars

\* Every external call of a run returns.
SpecRunLive ==
  /\ Init /\ [][NextRun]_vars
  /\ WF_vars(RunConnect) /\ WF_vars(RunListTools) /\ WF_vars(RunCompletion)
  /\ WF_vars(RunToolSettles) /\ WF_vars(RunGather) /\ WF_vars(RunClose)

(***************************************************************************)
(* Readings of the state used by the properties.                           *)
(***************************************************************************)
\* The ISO weekday (1 = Monday .. 7 = Sunday) of day number n.
IsoWeekdayOfDay(n) == ((n + 3) % 7) + 1

IsoOfName(weekday) == CHOOSE i \in 1..7 : WEEKDAYS[i] = weekday

Resolving == op = "resolve"

\* A resolution whose input is valid: canonical weekday, valid time.
ValidInput == args.weekday \in CanonicalWeekdays /\ args.time \in ValidTimes

RefZone == normalizeZone(args.wallClockNow.timezone)

\* The calendar day of the reference and of the result, in the reference's zone.
RefDay == MakeDay(args.wallClockNow.year, args.wallClockNow.month, args.wallClockNow.day)

ResultLocal == ret.t + ZoneOffset(procTZ, RefZone, ret.t)

ResultDay == DayOf(ResultLocal)

\* The day the input asks for.
TargetDay ==
  RefDay + args.weekOffset * 7 + (IsoOfName(args.weekday) - IsoWeekdayOfDay(RefDay))

\* The reading the input asks for, as minutes of local time.
RequestedLocal ==
  TargetDay * MinutesPerDay + parseInt(SubSeq(args.time, 1, 2)) * 60
    + parseInt(SubSeq(args.time, 4, 5))

ZoneOffsets(proc, zone) ==
  CASE zone.type = "iana" -> IanaOffsets(zone.name)
    [] zone.type = "system" -> IanaOffsets(proc)
    [] OTHER -> {zone.offset}

\* The reading `local` is shown by no instant in `zone`: the clock skipped it.
Skipped(proc, zone, local) ==
  \A o \in ZoneOffsets(proc, zone) : ZoneOffset(proc, zone, local - o) # o

\* The length of the spring-forward gap of the zones of the model.
GapMinutes == SetMax(ZoneOffsets(procTZ, RefZone)) - SetMin(ZoneOffsets(procTZ, RefZone))

(***************************************************************************)
(* Properties                                                              *)
(***************************************************************************)
\* C1: for every reference that getWallClockNow returns and every input with
\* an integer weekOffset, a canonical weekday and a valid HH:mm time, the
\* resolver returns an instant whose ISO weekday, read in the reference's
\* zone, is that of input.weekday; the inconsistency error is never raised.
C1_SelfConsistency ==
  (Resolving /\ ValidInput) =>
    /\ ret.err # "DateCalculationInconsistency"
    /\ ret.ok
    /\ IsoWeekdayOfDay(ResultDay) = IsoOfName(args.weekday)

\* C2: the calendar date of every instant the resolver returns, read in the
\* reference's zone, is weekOffset * 7 + (targetIso - currentIso) days from
\* the reference's calendar date.
C2_SameWeekArithmetic ==
  (Resolving /\ ret.ok) => ResultDay = TargetDay

\* C2 witness: weekOffset 0 and a weekday before the reference's weekday
\* resolve to an earlier day of the same week.
C2_Witness ==
  /\ Resolving
  /\ ret.ok
  /\ args.weekOffset = 0
  /\ IsoOfName(args.weekday) < IsoWeekdayOfDay(RefDay)
  /\ ResultDay < RefDay
  /\ RefDay - ResultDay < 7

\* C3: adding whole weeks preserves the weekday: with the reference's own
\* weekday as target and any integer weekOffset k, the day arithmetic of the
\* resolver (reference day + 7k) passes the resolver's weekday reading and
\* gives a date with the ISO weekday of the reference date.
C3_WholeWeeksKeepWeekday ==
  (/\ Resolving
   /\ args.time \in ValidTimes
   /\ args.weekday \in CanonicalWeekdays
   /\ IsoOfName(args.weekday) = IsoWeekdayOfDay(RefDay)) =>
    /\ ret.ok
    /\ ResultDay = RefDay + 7 * args.weekOffset
    /\ IsoWeekdayOfDay(ResultDay) = IsoWeekdayOfDay(RefDay)

\* C4 as claimed: every instant the resolver returns projects back into the
\* reference's zone as exactly the requested hour and minute on the target
\* date.
C4_ExactProjection ==
  (Resolving /\ ret.ok) => ResultLocal = RequestedLocal

\* C4 as amended: a requested reading that exists on the target date projects
\* back exactly, with the offset in force at the returned instant; a reading
\* the zone skips on the target date comes back moved forward by the gap.
C4_ProjectionOutsideGap ==
  (Resolving /\ ret.ok) =>
    IF Skipped(procTZ, RefZone, RequestedLocal)
    THEN ResultLocal = RequestedLocal + GapMinutes
    ELSE ResultLocal = RequestedLocal

\* C4 witness: the offset on the target date differs from the offset at the
\* reference time, and the requested reading comes back exactly.
C4_Witness ==
  /\ Resolving
  /\ ret.ok
  /\ ZoneOffset(procTZ, RefZone, ret.t) # ZoneOffset(procTZ, RefZone, args.now)
  /\ ResultLocal = RequestedLocal

\* C5: a time that is not HH:mm with hour 0..23 and minute 0..59 fails with
\* the invalid-time-format error echoing the value, whatever the weekday and
\* the weekOffset are, and no instant is returned.
C5_InvalidTimeRejectedFirst ==
  (Resolving /\ args.time \in InvalidTimes) =>
    ret = Thrown("InvalidTimeFormat", args.time)

\* C5 witness: the time and the weekday are both invalid and the time error
\* is the one raised.
C5_Witness ==
  /\ Resolving
  /\ args.time \in InvalidTimes
  /\ args.weekday \notin CanonicalWeekdays
  /\ ret = Thrown("InvalidTimeFormat", args.time)

\* C6: a weekday outside the seven canonical names, with a valid time, fails
\* with the invalid-weekday error and with no other error kind.
C6_InvalidWeekdayRejected ==
  (Resolving /\ args.time \in ValidTimes /\ args.weekday \notin CanonicalWeekdays) =>
    ret = Thrown("InvalidWeekday", args.weekday)

\* C7: calculateEndDate(start, d) is the instant d minutes (60 when d is
\* omitted) after start in absolute time, whatever the zone of the process.
C7_DurationAdditivity ==
  op = "calculateEndDate" =>
    ret = args.startDate + (IF args.given THEN args.durationMinutes ELSE 60)

\* The timezone arguments of the model that are IANA zone names.
RecognizedIanaArgs ==
  {"Europe/Helsinki", "America/New_York", "Asia/Tokyo", "UTC", "europe/helsinki"}

\* C8: getWallClockNow(timezone) fails with the invalid-timezone error for
\* every identifier that is no IANA zone, and returns a wall clock carrying
\* the given timezone exactly for the IANA zones.
C8_OnlyIanaZones ==
  op = "getWallClockNow" =>
    /\ ret.ok <=> args.timezone \in RecognizedIanaArgs
    /\ ret.ok => ret.wc.timezone = args.timezone
    /\ ~ret.ok => ret.err = "InvalidTimezone"

WarnedUnable(token) ==
  \E i \in 1..Len(warnings) : warnings[i] = Warning("UnableToParse", token)

\* The instants the good DTSTART and DTEND values of the listings denote.
ListingInstant(token) ==
  CASE token = "20250101T120000Z" -> UtcInstant(2025, 1, 1, 12, 0)
    [] token = "20250615T093000" -> UtcInstant(2025, 6, 15, 6, 30)
    [] token = "20250101T130000Z" -> UtcInstant(2025, 1, 1, 13, 0)

ListingGoodTokens == {"20250101T120000Z", "20250615T093000", "20250101T130000Z"}

\* Every event of the listing is returned, in order, each with the dates its
\* own tokens decode to.
ListingComplete ==
  /\ Len(ret) = Len(args.starts)
  /\ \A i \in 1..Len(args.starts) :
       /\ ret[i].title = "Event " \o NatToString(i)
       /\ args.starts[i] \in ListingGoodTokens =>
            ret[i].start = [valid |-> TRUE, t |-> ListingInstant(args.starts[i])]
       /\ args.ends[i] \in ListingGoodTokens =>
            ret[i].end = [valid |-> TRUE, t |-> ListingInstant(args.ends[i])]
       /\ args.starts[i] \in MalformedTokens \cup ImpossibleTokens =>
            ret[i].start = NoDate
       /\ args.ends[i] = "bad" => ret[i].end = NoDate

C10_TzidHonoured ==
  op = "parseIcsDate" =>
    \A z \in TzidValidZones \cup TzidInvalidZones, r \in TzidReadings :
      args.token = TzidToken(z, r) =>
        LET zone == normalizeZone(IF z \in TzidValidZones THEN z ELSE "Europe/Helsinki")
            f == ZoneFields(procTZ, zone, ret.t)
        IN /\ ret.valid
           /\ f = [year |-> r.year, month |-> r.month, day |-> r.day,
                   hour |-> r.hour, minute |-> r.minute]
           /\ warnings = IF z \in TzidValidZones THEN <<>>
                         ELSE <<Warning("InvalidTZID", args.token)>>

\* C10 witness: a token with a valid zone other than the default one has
\* been decoded to an instant that reads differently in the default zone.
C10_Witness ==
  /\ op = "parseIcsDate"
  /\ \E r \in TzidReadings :
       /\ args.token = TzidToken("America/New_York", r)
       /\ ret.valid
       /\ ZoneFields(procTZ, normalizeZone("America/New_York"), ret.t).hour = r.hour
       /\ ZoneFields(procTZ, normalizeZone("Europe/Helsinki"), ret.t).hour # r.hour

\* C11: a token YYYYMMDDTHHMMSS followed by a numeric offset sHHMM decodes to
\* the instant whose UTC time is the wall-clock reading minus the signed
\* offset, for both signs and for offsets with non-zero minutes.
C11_NumericOffset ==
  op = "parseIcsDate" =>
    \A r \in TzidReadings, o \in OffsetSuffixes :
      args.token = OffsetToken(r, o) =>
        /\ ret.valid
        /\ ret.t = UtcInstant(r.year, r.month, r.day, r.hour, r.minute) - o.minutes

ReadingFields(r) ==
  [year |-> r.year, month |-> r.month, day |-> r.day, hour |-> r.hour,
   minute |-> r.minute]

\* C12: for an event whose DTSTART and DTEND lines carry a TZID parameter
\* naming a valid zone, mapIcsToCalendarEvents returns start and end equal to
\* the instants of the wall-clock readings in that zone.
C12_TzidParameter ==
  op = "mapIcsTzidParam" =>
    /\ Len(ret) = 1
    /\ ret[1].start.valid
    /\ ret[1].end.valid
    /\ ZoneFields(procTZ, normalizeZone(args.zone), ret[1].start.t)
         = ReadingFields(args.start)
    /\ ZoneFields(procTZ, normalizeZone(args.zone), ret[1].end.t)
         = ReadingFields(args.end)

\* The events decoded from the text generateICal returned.
DecodedEvents == mapIcsToCalendarEvents(procTZ, args.now, ret).events

IsFreeText(opt) == opt.isNull \/ opt.s \in FreeTexts \/ opt \in OptionalTexts

\* C13: free text survives an encode/decode round trip: decoding the output
\* of generateICal with mapIcsToCalendarEvents yields exactly the original
\* title, description and location.
C13_TextRoundTrip ==
  (/\ op = "generateICal"
   /\ args.input.title \in FreeTexts
   /\ IsFreeText(args.input.description)
   /\ IsFreeText(args.input.location)) =>
    /\ Len(DecodedEvents) = 1
    /\ DecodedEvents[1].title = args.input.title
    /\ DecodedEvents[1].description = args.input.description
    /\ DecodedEvents[1].location = args.input.location

\* The value of the n-th content line of the text, after the property name
\* and its colon.
LineValue(text, n, name) ==
  SubSeq(SplitLines(text)[n], Len(name) + 2, Len(SplitLines(text)[n]))

DecodedStart == parseIcsDate(procTZ, args.now, TRUE, LineValue(ret, 8, "DTSTART")).date

DecodedEnd == parseIcsDate(procTZ, args.now, TRUE, LineValue(ret, 9, "DTEND")).date

UtcYear(date) == ZoneFields(procTZ, FixedOffsetZone(0), date.t).year

OnlyCrLf(text) ==
  \A i \in 1..Len(text) :
    /\ Char(text, i) = "\n" => (i > 1 /\ Char(text, i - 1) = "\r")
    /\ Char(text, i) = "\r" => (i < Len(text) /\ Char(text, i + 1) = "\n")

\* The content lines generateICal is to emit for its input.
PropertyCount(input) ==
  12 + (IF Truthy(input.description) THEN 1 ELSE 0)
     + (IF Truthy(input.location) THEN 1 ELSE 0)

\* C15: in the text generateICal produces every line break is CRLF, for any
\* title, description, location, uid and domain, and each content line holds
\* exactly one property.
C15_CrLfOnly ==
  op = "generateICal" =>
    /\ OnlyCrLf(ret)
    /\ Len(SplitLines(ret)) = PropertyCount(args.input)

\* The text one character of the input becomes.
EscapedChar(c) ==
  CASE c \in {"\\", ",", ";"} -> "\\" \o c
    [] c = "\n" -> "\\n"
    [] OTHER -> c

RECURSIVE EscapedOnce(_, _)
EscapedOnce(str, i) ==
  IF i > Len(str) THEN "" ELSE EscapedChar(Char(str, i)) \o EscapedOnce(str, i + 1)

EscapeOutputs == {escapeText(str) : str \in EscapeInputs}

\* C16: escapeText replaces every backslash, comma and semicolon by a
\* backslash and that character, every newline by backslash and n, leaves
\* every other character unchanged, escapes no character twice, and gives
\* distinct outputs for distinct inputs.
C16_EscapeText ==
  /\ op = "escapeText" => ret = EscapedOnce(args.str, 1)
  /\ Cardinality(EscapeOutputs) = Cardinality(EscapeInputs)

\* C16 witness: an input with a newline and a backslash has been escaped, and
\* the backslash written for the newline is not doubled.
C16_Witness ==
  /\ op = "escapeText"
  /\ args.str = "\\\nn"
  /\ ret = "\\\\\\nn"

\* The line the property asks for one event.
EventLine(event, timezone) ==
  LET startStr == formatDate(procTZ, event.start, timezone)
      endStr == formatDate(procTZ, event.end, timezone)
      range == CASE ~startStr.isNull /\ ~endStr.isNull /\ startStr.s = endStr.s -> startStr.s
                 [] ~startStr.isNull /\ ~endStr.isNull /\ startStr.s # endStr.s ->
                      startStr.s \o " to " \o endStr.s
                 [] ~startStr.isNull /\ endStr.isNull -> startStr.s
                 [] startStr.isNull /\ ~endStr.isNull -> endStr.s
                 [] startStr.isNull /\ endStr.isNull -> "No time"
  IN "- " \o event.title \o ": " \o range
       \o (IF ~event.location.isNull /\ event.location.s # ""
           THEN " at " \o event.location.s ELSE "")

RECURSIVE EventLines(_, _, _)
EventLines(events, timezone, i) ==
  IF i > Len(events) THEN ""
  ELSE EventLine(events[i], timezone)
         \o (IF i < Len(events) THEN "\n" ELSE "")
         \o EventLines(events, timezone, i + 1)

\* C17: formatEventList returns the empty message for an empty list and
\* otherwise one line per event in input order, each '- <title>: <start> to
\* <end>' with ' at <location>' only when a location is present, the range
\* being the single string when both render identically or only one date is
\* present, and 'No time' when both are absent.
C17_EventLines ==
  op = "formatEventList" =>
    ret = (IF Len(args.events) = 0 THEN args.emptyMessage
           ELSE EventLines(args.events, args.timezone, 1))

\* C17 witness: a list of an event with both dates and a location and an
\* event without dates has been rendered in the default zone.
C17_Witness ==
  /\ op = "formatEventList"
  /\ args.timezone = "Europe/Helsinki"
  /\ Len(args.events) = 2
  /\ ret = "- Lunch: 2025-01-13 (Monday) 09:00 to 2025-01-13 (Monday) 10:00 at Room 1"
             \o "\n- Untitled: No time"

\* The call met a failure of the login, of the calendar fetch or of the
\* object fetch, or a user without calendar.
ClientFailure ==
  \/ args.clientPromise = "null" /\ args.env.login = "fail"
  \/ args.env.calendars # "one"
  \/ args.env.objects.kind = "fail"

\* C18: listEvents and getEventsInRange never throw; when the login, the
\* calendar fetch or the object fetch fails, or the user has no calendar,
\* they return an empty list.
C18_EmptyOnFailure ==
  op \in {"listEvents", "getEventsInRange"} =>
    /\ ~ret.threw
    /\ ClientFailure => ret.value = <<>>

\* C18 witness: listEvents has returned the empty list after a failed login.
C18_Witness ==
  /\ op = "listEvents"
  /\ args.clientPromise = "null"
  /\ args.env.login = "fail"
  /\ args.env.objects.kind = "list"
  /\ Len(args.env.objects.list) > 0
  /\ ~ret.threw
  /\ ret.value = <<>>

\* The handler returned exactly one text content 'Error: <message>'.
IsErrorContent(r) ==
  /\ Len(r.content) = 1
  /\ r.content[1].type = "text"
  /\ Len(r.content[1].text) > 7
  /\ SubSeq(r.content[1].text, 1, 7) = "Error: "

\* No request was sent twice.
NoRetry(r) == \A i, j \in 1..Len(r.calls) : r.calls[i] = r.calls[j] => i = j

ResolutionFails == ~ResolveSlot(procTZ, args.now, args.input).ok

\* The calendar client raised an error inside createEvent.
CreateFailure ==
  \/ args.clientPromise = "null" /\ args.env.login = "fail"
  \/ args.env.calendars # "one"
  \/ args.env.create = "fail"

\* C19 as stated: the createEvent and getEventsInTimeSlot handlers never
\* throw and never retry, every error raised by getWallClockNow, the
\* resolver or the calendar client is returned as one text content
\* 'Error: <message>', and no calendar object is created when date
\* resolution fails in createEvent.
C19_EveryErrorReturned ==
  /\ op = "createEventTool" =>
       /\ ~ret.threw /\ NoRetry(ret)
       /\ (ResolutionFails \/ CreateFailure) => IsErrorContent(ret)
       /\ ResolutionFails => ret.created = <<>>
  /\ op = "getEventsInTimeSlotTool" =>
       /\ ~ret.threw /\ NoRetry(ret)
       /\ (ResolutionFails \/ ClientFailure) => IsErrorContent(ret)

\* C19 amended: the handlers never throw and never retry; every error of
\* getWallClockNow and of the resolver, and every error of the calendar
\* client in createEvent, is returned as one text content 'Error: <message>'
\* and no calendar object is created when date resolution fails; an error
\* of the calendar client in getEventsInTimeSlot is not reported: the slot
\* is answered as free.
C19_ErrorsReturned ==
  /\ op = "createEventTool" =>
       /\ ~ret.threw /\ NoRetry(ret)
       /\ (ResolutionFails \/ CreateFailure) => IsErrorContent(ret)
       /\ ResolutionFails => ret.created = <<>> /\ ret.calls = <<>>
  /\ op = "getEventsInTimeSlotTool" =>
       /\ ~ret.threw /\ NoRetry(ret)
       /\ ResolutionFails => IsErrorContent(ret) /\ ret.calls = <<>>
       /\ (~ResolutionFails /\ ClientFailure) =>
            /\ ~IsErrorContent(ret)
            /\ ret.content =
                 <<[type |-> "text",
                    text |-> "Time slot: "
                               \o formatDateTime(procTZ,
                                    ResolveSlot(procTZ, args.now, args.input).start,
                                    IF args.input.timezone.isNull THEN DEFAULT_TIMEZONE
                                    ELSE args.input.timezone.s)
                               \o " - "
                               \o formatTime(procTZ,
                                    ResolveSlot(procTZ, args.now, args.input).end,
                                    IF args.input.timezone.isNull THEN DEFAULT_TIMEZONE
                                    ELSE args.input.timezone.s)
                               \o "\nAVAILABLE - This time slot is FREE, no events scheduled."]>>

\* C19 witness: the createEvent handler has answered a failed date
\* resolution with an error text while the server would have stored the
\* event.
C19_Witness ==
  /\ op = "createEventTool"
  /\ args.input.time = "09:00"
  /\ args.input.timezone.isNull
  /\ args.env.login = "ok" /\ args.env.calendars = "one" /\ args.env.create = "ok"
  /\ ResolutionFails
  /\ IsErrorContent(ret)
  /\ ret.created = <<>>

\* The body fails validation as the property reads it: the prompt missing
\* or empty, or a timezone that is no IANA zone name.
BodyInvalid ==
  \/ args.body.prompt.isNull
  \/ args.body.prompt.s = ""
  \/ ~args.body.timezone.isNull /\ args.body.timezone.s \notin RecognizedIanaArgs

\* C20: POST /api/v1/client answers 400 and starts no run whenever the body
\* fails validation (prompt missing or empty, timezone no valid IANA name),
\* answers 500 for every error raised during the run, and the error handler
\* never emits a status below 400.
C20_Statuses ==
  /\ op = "postPrompt" =>
       /\ BodyInvalid => ret.status = 400 /\ ~ret.started
       /\ (~BodyInvalid /\ args.run = "fail") => ret.status = 500
  /\ op = "errorHandler" => ret.status >= 400

\* The error the resolver raises for the input of the call, if any.
ResolverError ==
  calculateAbsoluteDateFromWallClock(
    procTZ, args.now, getWallClockNow(procTZ, args.now, DEFAULT_TIMEZONE).wc,
    args.weekOffset, args.weekday, args.time).err

\* C22: relativeTimeInputSchema accepts a (weekOffset, weekday, time) triple
\* exactly when the resolver raises neither the invalid-time-format nor the
\* invalid-weekday error for it.
C22_SchemaAgreesWithResolver ==
  op = "relativeTimeInputSchema" =>
    (ret <=> ResolverError \notin {"InvalidTimeFormat", "InvalidWeekday"})

\* C28: the event object emitted at END:VEVENT is not changed by any later
\* line: the first event returned is the event as it was when its END:VEVENT
\* had been read.
C28_EmittedEventsFrozen ==
  op = "icsToJson" =>
    /\ Len(ret) >= 1
    /\ ret[1] = icsToJson(args.emitted)[1]

\* The handler answered that the slot is free.
ReportsFree == Includes(ret.content[1].text, "AVAILABLE - This time slot is FREE")

\* C29: getEventsInTimeSlot reports a slot as free only when the calendar
\* store was queried successfully for the slot and returned no event; a
\* login, calendar-fetch or query failure is never reported as a free slot.
C29_FreeOnlyWhenQueried ==
  (op = "getEventsInTimeSlotTool" /\ ReportsFree) =>
    /\ ~ClientFailure
    /\ ret.calls # <<>>
    /\ ret.calls[Len(ret.calls)] = "fetchCalendarObjects"

\* C21: the toolCalls number a run returns is the number of callTool
\* requests the run sent to the MCP server.
C21_ToolCallsCount ==
  (promptRun.pc = "settled" /\ promptRun.outcome.kind = "fulfilled") =>
    promptRun.outcome.toolCalls = promptRun.callToolSent

\* The assistant messages of a history that request tools.
ToolRequests(messages) ==
  {m \in 1..Len(messages) :
     messages[m].role = "assistant" /\ Len(messages[m].tool_calls) > 0}

MaxRoundsError ==
  RunRejected("Max tool rounds reached (10). The model kept requesting tools.")

\* C23: a run sends at most MAX_ROUNDS completion requests; it sends none
\* after a completion that requests no tool and answers with the content of
\* that completion; when MAX_ROUNDS completions have all requested tools it
\* ends with the 'Max tool rounds reached' error; and a run whose external
\* calls all return settles.
C23_BoundedRounds ==
  /\ [](promptRun.completions <= MAX_ROUNDS)
  /\ [](promptRun.pc \in {"completion", "tools"} =>
          \A m \in 1..Len(promptRun.messages) :
            promptRun.messages[m].role = "assistant" => m \in ToolRequests(promptRun.messages))
  /\ []((promptRun.pc = "settled" /\ promptRun.outcome.kind = "fulfilled") =>
          LET last == promptRun.messages[Len(promptRun.messages)]
          IN /\ last.role = "assistant" /\ Len(last.tool_calls) = 0
             /\ promptRun.outcome.answer = (IF Truthy(last.content) THEN last.content.s ELSE "")
             /\ Cardinality(ToolRequests(promptRun.messages)) = promptRun.completions - 1)
  /\ []((promptRun.pc = "settled"
           /\ Cardinality(ToolRequests(promptRun.messages)) = MAX_ROUNDS
           /\ promptRun.completions = MAX_ROUNDS
           /\ promptRun.messages[Len(promptRun.messages)].role = "tool") =>
          promptRun.outcome = MaxRoundsError)
  /\ [](promptRun.outcome = MaxRoundsError => promptRun.completions = MAX_ROUNDS)
  /\ (promptRun.pc # "idle" ~> promptRun.pc = "settled")

\* A run that ended with the max-rounds error after ten completions.
C23_Witness ==
  /\ promptRun.pc = "settled"
  /\ promptRun.outcome = MaxRoundsError
  /\ promptRun.completions = MAX_ROUNDS
  /\ Cardinality(ToolRequests(promptRun.messages)) = MAX_ROUNDS

\* C26: a run that has connected the transport has closed it exactly once
\* when its promise settles.
C26_ClosedOnce ==
  (promptRun.pc = "settled" /\ promptRun.everConnected) => promptRun.closes = 1

\* The function calls of an assistant message, in the order of the calls.
FunctionCalls(message) == SelectSeq(message.tool_calls, LAMBDA call : call.type = "function")

HasPrefix(content, prefix) == ~content.isNull /\ StartsWith(content.s, prefix)

\* The messages after the tool request at m are one tool message per
\* function call, in the order of the calls, and then no tool message.
AnsweredInOrder(messages, m) ==
  LET fn == FunctionCalls(messages[m])
  IN /\ Len(messages) >= m + Len(fn)
     /\ \A k \in 1..Len(fn) :
          /\ messages[m + k].role = "tool"
          /\ messages[m + k].tool_call_id = fn[k].id
          /\ ~JsonParses(fn[k].arguments) =>
               HasPrefix(messages[m + k].content, "Error: Invalid JSON arguments for tool ")
          /\ fn[k].id \in promptRun.failed =>
               HasPrefix(messages[m + k].content, "Error executing tool ")
     /\ Len(messages) > m + Len(fn) => messages[m + Len(fn) + 1].role # "tool"

\* C27: whenever the calls of a round are not in flight, every assistant
\* message that requested tools is followed by exactly one tool message per
\* function call, with the id of the call and in the order of the calls; a
\* call whose arguments do not parse or whose execution failed has an error
\* text, and neither ends the run.
C27_ToolMessagesInOrder ==
  /\ promptRun.pc # "tools" =>
       \A m \in ToolRequests(promptRun.messages) : AnsweredInOrder(promptRun.messages, m)
  /\ promptRun.pc = "tools" =>
       /\ Len(promptRun.messages) \in ToolRequests(promptRun.messages)
       /\ \A m \in ToolRequests(promptRun.messages) \ {Len(promptRun.messages)} :
            AnsweredInOrder(promptRun.messages, m)
  /\ (promptRun.pc = "settled" /\ promptRun.outcome.kind = "rejected"
        /\ promptRun.messages # <<>>) =>
       \/ promptRun.messages[Len(promptRun.messages)].role # "tool"
       \/ promptRun.outcome = MaxRoundsError
       \/ promptRun.outcome.message \in {"fetch failed", "No message returned from OpenAI"}

\* A round of three calls (arguments that do not parse, a call that is no
\* function call, a function call whose execution failed) has been answered
\* and the next completion request is out.
C27_Witness ==
  /\ promptRun.pc = "completion"
  /\ promptRun.failed # {}
  /\ \E m \in ToolRequests(promptRun.messages) :
       /\ Len(promptRun.messages[m].tool_calls) = 3
       /\ Len(FunctionCalls(promptRun.messages[m])) = 2

\* The promises whose login is in flight.
LoginsInFlight == {p \in 1..Len(auth.state) : auth.state[p] = "login"}

\* C24: at most one login is in flight; a call returns a promise other
\* than the one an earlier call returned only after that one was rejected
\* (callers during a login and after its success share its promise, and no
\* login starts for them); a rejected promise is never the stored one; and
\* the stored promise is cleared only by the failure of its own login.
C24_SingleLogin ==
  /\ [](Cardinality(LoginsInFlight) <= 1)
  /\ [](\A c1, c2 \in 1..Len(auth.got) :
          (c1 < c2 /\ auth.got[c1] # auth.got[c2]) => auth.state[auth.got[c1]] = "rejected")
  /\ [](Len(auth.state) <= Len(auth.got)
          /\ \A p \in 1..Len(auth.state) : \E c \in 1..Len(auth.got) : auth.got[c] = p)
  /\ [](auth.clientPromise # NullPromise => auth.state[auth.clientPromise] # "rejected")
  /\ [](auth.clientPromise = NullPromise =>
          \A p \in 1..Len(auth.state) : auth.state[p] = "rejected")
  /\ [][(auth.clientPromise # NullPromise /\ auth'.clientPromise = NullPromise
           /\ auth'.got # <<>>) =>
          /\ auth.state[auth.clientPromise] = "loginFailed"
          /\ auth'.state[auth.clientPromise] = "rejected"]_vars

\* A first login failed, the next call started a second login, and two
\* later callers got the promise of the second, one during the login and
\* one after its success.
C24_Witness ==
  /\ Len(auth.state) = 2 /\ auth.state[1] = "rejected" /\ auth.state[2] = "resolved"
  /\ Cardinality({c \in 1..Len(auth.got) : auth.got[c] = 2}) >= 3
  /\ auth.clientPromise = 2

\* C25: when the middleware has finished, next has been called exactly
\* once, without argument when the try block succeeded and with a
\* CustomError when it failed; with a file, fs.unlink was called exactly
\* once, on that file, whether it succeeded or not; without a file, nothing
\* was deleted.  Before it finishes, next is never called twice and the file
\* never deleted twice.
C25_CleanupAndNextOnce ==
  /\ Len(upload.nextCalls) <= 1 /\ Len(upload.unlinks) <= 1
  /\ upload.pc = "done" =>
       /\ Len(upload.nextCalls) = 1
       /\ upload.failed => (upload.nextCalls[1].kind = "error" /\ upload.nextCalls[1].custom)
       /\ ~upload.failed => upload.nextCalls[1] = NoArgument
       /\ upload.file # NoFile => upload.unlinks = <<upload.file>>
       /\ upload.file = NoFile => (upload.unlinks = <<>> /\ ~upload.failed)
  /\ upload.pc = "cleanup" => Len(upload.nextCalls) = 1

\* A failed transcription whose file could not be deleted either.
C25_Witness ==
  /\ upload.pc = "done" /\ upload.failed /\ upload.logged = 1
  /\ upload.nextCalls = <<[kind |-> "error", custom |-> TRUE,
                           message |-> "Audio transcription failed", status |-> 500]>>
  /\ upload.unlinks = <<upload.file>>

\* The createEvent calls that have returned.
Completed == {c \in 1..Len(calendar.calls) : calendar.calls[c].pc = "done"}

\* C30: two createEvent calls that have both returned used distinct file
\* names and distinct UIDs, and the calendar holds the object of each.
C30_DistinctObjects ==
  \A c1, c2 \in Completed :
    c1 # c2 =>
      /\ calendar.calls[c1].filename # calendar.calls[c2].filename
      /\ calendar.calls[c1].uid # calendar.calls[c2].uid
      /\ \A c \in {c1, c2} :
           [filename |-> calendar.calls[c].filename, uid |-> calendar.calls[c].uid]
             \in calendar.objects

====
